---- MODULE Spec2Model ----
(***************************************************************************)
(* A model of pubmed_fetcher: the Author affiliation classifier and the    *)
(* Paper views (models.py) and the record parser (parser.py).              *)
(*                                                                         *)
(* Python strings are modelled as sequences of one-character strings, so   *)
(* that lower(), find(), split(), strip() and replace() are computed on    *)
(* the characters as the interpreter computes them.  Offsets returned by   *)
(* Find are 0-based, as str.find's are.                                    *)
(***************************************************************************)
EXTENDS Integers, Sequences, FiniteSets, TLC

VARIABLES
    aff_in,        \* the affiliation text given (a string or None)
    nonacad_in,    \* Author(...): the is_non_academic argument
    company_in,    \* Author(...): the company_name argument
    author,        \* the Author object built last
    op,            \* the operation that ran last ("none" before any)
    authors,       \* the Author list a Paper is assembled from
    paper,         \* the Paper object
    view,          \* the Paper property read last and the value it returned
    api_response,  \* parse_search_results: the response given
    papers,        \* parse_search_results: the list returned
    raised,        \* whether the call ended in an exception
    date_in,       \* parse_date: the argument
    date_out,      \* parse_date: the date returned
    query,         \* search: the query
    max_results,   \* search: the max_results argument
    idlist,        \* search: the idlist of the search endpoint's response
    pmids,         \* search: the list returned
    record_in,     \* parse_author: the record given
    xml_authors,   \* fetch_details: the authors of the article fetched
    rows           \* save_results_to_csv: the rows written after the header

\* The variables of search, of parse_author on a record and of the
\* pipeline from fetch_details to save_results_to_csv.
pipelineVars ==
    <<query, max_results, idlist, pmids, record_in, xml_authors, rows>>

vars == <<aff_in, nonacad_in, company_in, author, op, authors, paper, view,
          api_response, papers, raised, date_in, date_out, query,
          max_results, idlist, pmids, record_in, xml_authors, rows>>

---------------------------------------------------------------------------
(* Python values.                                                          *)

\* None: a one-element sequence whose element is no character, so that it
\* is comparable with every string and equal to none.
None == <<"None">>

\* The other Python values that are not strings are one-element sequences
\* of the same kind.
PyTrue == <<"True">>
PyFalse == <<"False">>

\* An int is <<"int">> followed by its digits, a list <<"list">> followed
\* by its items, a dict <<"dict">> followed by its <<key, value>> pairs.
\* bool(x) for x any of these values.
Truthy(x) ==
    /\ x /= None /\ x /= PyFalse /\ x /= <<>>
    /\ x /= <<"int", "0">> /\ x /= <<"list">> /\ x /= <<"dict">>

\* The characters str.split() and str.strip() take as whitespace, of the
\* characters up to U+00FF: U+0009 to U+000D, U+001C to U+001F, the space,
\* U+0085 and U+00A0.
Whitespace == {"\t", "\n", "", "\f", "\r", "", "", "", "", " ", "", " "}

\* The cased letters up to U+00FF that str.lower() changes, and what it
\* makes of each.
UpperCase == <<"A","B","C","D","E","F","G","H","I","J","K","L","M",
               "N","O","P","Q","R","S","T","U","V","W","X","Y","Z",
               "À","Á","Â","Ã","Ä","Å","Æ","Ç","È","É","Ê","Ë","Ì","Í","Î","Ï","Ð","Ñ","Ò","Ó","Ô","Õ","Ö","Ø","Ù","Ú","Û","Ü","Ý","Þ">>
LowerCase == <<"a","b","c","d","e","f","g","h","i","j","k","l","m",
               "n","o","p","q","r","s","t","u","v","w","x","y","z",
               "à","á","â","ã","ä","å","æ","ç","è","é","ê","ë","ì","í","î","ï","ð","ñ","ò","ó","ô","õ","ö","ø","ù","ú","û","ü","ý","þ">>

\* str.lower() on one character.
LowerChar(c) ==
    IF \E i \in 1..Len(UpperCase) : UpperCase[i] = c
    THEN LowerCase[CHOOSE i \in 1..Len(UpperCase) : UpperCase[i] = c]
    ELSE c

\* str.lower()
Lower(s) == [i \in 1..Len(s) |-> LowerChar(s[i])]

\* s[i-1:].startswith(sub), i a 1-based index.
MatchAt(s, sub, i) ==
    /\ i + Len(sub) - 1 <= Len(s)
    /\ \A k \in 1..Len(sub) : s[i + k - 1] = sub[k]

\* s.find(sub): the lowest 0-based offset of sub in s, -1 when absent.
Find(s, sub) ==
    LET hits == {i \in 1..(Len(s) - Len(sub) + 1) : MatchAt(s, sub, i)}
    IN  IF hits = {} THEN -1
        ELSE (CHOOSE i \in hits : \A j \in hits : i <= j) - 1

\* sub in s
Contains(s, sub) == Find(s, sub) /= -1

\* x in list
InList(x, list) == \E i \in 1..Len(list) : list[i] = x

\* s.split(sep), sep one character: every segment, empty ones included.
RECURSIVE Split(_, _)
Split(s, sep) ==
    LET at == {i \in 1..Len(s) : s[i] = sep}
    IN  IF at = {} THEN <<s>>
        ELSE LET i == CHOOSE i \in at : \A j \in at : i <= j
             IN  <<SubSeq(s, 1, i - 1)>> \o Split(SubSeq(s, i + 1, Len(s)), sep)

\* s.lstrip(chars), s.rstrip(chars), s.strip(chars): chars a set of characters.
RECURSIVE LStrip(_, _)
LStrip(s, chars) ==
    IF s /= <<>> /\ s[1] \in chars THEN LStrip(Tail(s), chars) ELSE s

RECURSIVE RStrip(_, _)
RStrip(s, chars) ==
    IF s /= <<>> /\ s[Len(s)] \in chars
    THEN RStrip(SubSeq(s, 1, Len(s) - 1), chars) ELSE s

Strip(s, chars) == RStrip(LStrip(s, chars), chars)

\* s.strip()
StripWS(s) == Strip(s, Whitespace)

\* s.split(): the maximal runs of non-whitespace characters.
RECURSIVE SplitWS(_)
SplitWS(s) ==
    LET t == LStrip(s, Whitespace)
        ws == {i \in 1..Len(t) : t[i] \in Whitespace}
    IN  IF t = <<>> THEN <<>>
        ELSE IF ws = {} THEN <<t>>
        ELSE LET i == CHOOSE i \in ws : \A j \in ws : i <= j
             IN  <<SubSeq(t, 1, i - 1)>> \o SplitWS(SubSeq(t, i + 1, Len(t)))

\* s.replace(old, new), old not empty: the non-overlapping occurrences of
\* old, left to right.
RECURSIVE Replace(_, _, _)
Replace(s, old, new) ==
    IF Len(s) < Len(old) THEN s
    ELSE IF MatchAt(s, old, 1)
         THEN new \o Replace(SubSeq(s, Len(old) + 1, Len(s)), old, new)
         ELSE <<s[1]>> \o Replace(Tail(s), old, new)

\* sep.join(list)
RECURSIVE Join(_, _)
Join(list, sep) ==
    IF list = <<>> THEN <<>>
    ELSE IF Len(list) = 1 THEN list[1]
    ELSE list[1] \o sep \o Join(Tail(list), sep)

Min(S) == CHOOSE x \in S : \A y \in S : x <= y

\* float('inf'): larger than every offset of a string of the model.
Inf == 1000000

---------------------------------------------------------------------------
(* utils.py: the two keyword tables.  The file is not among the sources;   *)
(* the tables hold the keywords the specification lists, and the two      *)
(* company names that the specification's examples require to be company   *)
(* keywords: "Pfizer Inc., Research Division" is non-academic (its token   *)
(* "inc," is no keyword), and in "Novartis Institutes for BioMedical       *)
(* Research, Harvard Medical School" a company keyword precedes the        *)
(* academic keyword.                                                       *)

ACADEMIC_KEYWORDS ==
    { <<"u","n","i","v","e","r","s","i","t","y">>,
      <<"i","n","s","t","i","t","u","t","e">>, <<"s","c","h","o","o","l">>,
      <<"h","o","s","p","i","t","a","l">> }

COMPANY_KEYWORDS ==
    { <<"i","n","c">>, <<"l","t","d">>, <<"c","o","r","p">>,
      <<"p","h","a","r","m","a">>, <<"b","i","o","t","e","c","h">>, <<"g","m","b","h">>,
      <<"n","o","v","a","r","t","i","s">>, <<"p","f","i","z","e","r">> }

---------------------------------------------------------------------------
(* models.py: Author.                                                      *)

\* Mutant of DefaultIsNonAcademic: the field declared with the wrong default.
DefaultIsNonAcademicTrue == TRUE

\* The dataclass defaults of the derived fields.
DefaultIsNonAcademic == FALSE
DefaultCompanyName == None

\* any(keyword in affiliation_lower for keyword in ACADEMIC_KEYWORDS)
HasAcademic(affiliation_lower) ==
    \E keyword \in ACADEMIC_KEYWORDS : Contains(affiliation_lower, keyword)

\* Mutant of CompanyKeywordMatches: the full stops are not dropped before
\* the text is split into tokens.
CompanyKeywordMatchesKeepingDots(keyword, affiliation_lower) ==
    \/ InList(keyword, SplitWS(affiliation_lower))
    \/ Contains(<<" ">> \o affiliation_lower \o <<" ">>,
                <<" ">> \o keyword \o <<" ">>)

\* keyword in affiliation_lower.replace(".", "").split()
\*   or f" {keyword} " in f" {affiliation_lower} "
CompanyKeywordMatches(keyword, affiliation_lower) ==
    \/ InList(keyword, SplitWS(Replace(affiliation_lower, <<".">>, <<>>)))
    \/ Contains(<<" ">> \o affiliation_lower \o <<" ">>,
                <<" ">> \o keyword \o <<" ">>)

HasCompany(affiliation_lower) ==
    \E keyword \in COMPANY_KEYWORDS :
        CompanyKeywordMatches(keyword, affiliation_lower)

\* The loop of lines 51-54 (and 56-59): the least find() offset of a keyword
\* of the table, float('inf') when none is found.
EarliestPos(affiliation_lower, keywords) ==
    Min({Inf} \cup {Find(affiliation_lower, keyword) :
                      keyword \in {k \in keywords :
                                     Find(affiliation_lower, k) /= -1}})

AcademicPos(affiliation_lower) ==
    EarliestPos(affiliation_lower, ACADEMIC_KEYWORDS)

CompanyPos(affiliation_lower) ==
    EarliestPos(affiliation_lower, COMPANY_KEYWORDS)

\* Mutant of CheckNonAcademicAffiliation: the positions are compared
\* whether or not both keyword classes matched.
CheckByPositionOnly(affiliation) ==
    IF ~Truthy(affiliation) THEN FALSE
    ELSE CompanyPos(Lower(affiliation)) < AcademicPos(Lower(affiliation))

\* Author._check_non_academic_affiliation
CheckNonAcademicAffiliation(affiliation) ==
    IF ~Truthy(affiliation) THEN FALSE
    ELSE LET affiliation_lower == Lower(affiliation)
             has_academic == HasAcademic(affiliation_lower)
             has_company == HasCompany(affiliation_lower)
         IN  IF has_academic /\ has_company
             THEN CompanyPos(affiliation_lower) < AcademicPos(affiliation_lower)
             ELSE has_company

\* The words of line 76-77 that mark a segment as no company name.
SkipWords ==
    << <<"d","e","p","a","r","t","m","e","n","t">>,
       <<"d","i","v","i","s","i","o","n">>,
       <<"u","n","i","t">>,
       <<"g","r","o","u","p">>,
       <<"t","e","a","m">>,
       <<"l","a","b","o","r","a","t","o","r","y">>,
       <<"r","e","s","e","a","r","c","h">>,
       <<"d","e","v","e","l","o","p","m","e","n","t">>,
       <<"r","&","d">>,
       <<"@">>,
       <<"e","m","a","i","l">>,
       <<"a","d","d","r","e","s","s">>,
       <<"t","e","l">>,
       <<"f","a","x">> >>

\* p and not any(skip in p.lower() for skip in [...])
KeepPart(p) ==
    /\ p /= <<>>
    /\ ~\E i \in 1..Len(SkipWords) : Contains(Lower(p), SkipWords[i])

\* Mutant of PartHasCompanyKeyword: no part is preferred for its keyword.
PartHasNoCompanyKeyword(part) == FALSE

\* any(keyword in part_lower.replace(".", "").split() for keyword in COMPANY_KEYWORDS)
PartHasCompanyKeyword(part) ==
    \E keyword \in COMPANY_KEYWORDS :
        InList(keyword, SplitWS(Replace(Lower(part), <<".">>, <<>>)))

NotEmailWord(word) == ~Contains(word, <<"@">>)

\* Lines 89-93 (and 96-100): strip("., "), then drop the words holding "@".
CleanCompanyName(part) ==
    LET company_name == Strip(part, {".", ",", " "})
    IN  IF Contains(company_name, <<"@">>)
        THEN Join(SelectSeq(SplitWS(company_name), NotEmailWord), <<" ">>)
        ELSE company_name

\* parts of lines 72-78: the trimmed comma segments that are kept.
CompanyParts(affiliation) ==
    LET segs == Split(affiliation, ",")
        parts == [i \in 1..Len(segs) |-> StripWS(segs[i])]
    IN  SelectSeq(parts, KeepPart)

\* Mutant of ExtractCompanyName: the segments holding a noise word are not
\* discarded.
ExtractCompanyNameUnfiltered(affiliation, is_non_academic) ==
    IF ~Truthy(affiliation) \/ ~is_non_academic THEN None
    ELSE LET segs == Split(affiliation, ",")
             stripped == [i \in 1..Len(segs) |-> StripWS(segs[i])]
             parts == SelectSeq(stripped, LAMBDA p : p /= <<>>)
             hits == {i \in 1..Len(parts) : PartHasCompanyKeyword(parts[i])}
         IN  IF parts = <<>> THEN None
             ELSE IF hits /= {} THEN CleanCompanyName(parts[Min(hits)])
             ELSE CleanCompanyName(parts[1])

\* Author._extract_company_name
ExtractCompanyName(affiliation, is_non_academic) ==
    IF ~Truthy(affiliation) \/ ~is_non_academic THEN None
    ELSE LET parts == CompanyParts(affiliation)
             hits == {i \in 1..Len(parts) : PartHasCompanyKeyword(parts[i])}
         IN  IF parts = <<>> THEN None
             ELSE IF hits /= {} THEN CleanCompanyName(parts[Min(hits)])
             ELSE CleanCompanyName(parts[1])

\* Author.__post_init__
PostInit(self) ==
    IF Truthy(self.affiliation)
    THEN LET checked == [self EXCEPT !.is_non_academic =
                            CheckNonAcademicAffiliation(self.affiliation)]
         IN  IF checked.is_non_academic
             THEN [checked EXCEPT !.company_name =
                      ExtractCompanyName(checked.affiliation,
                                         checked.is_non_academic)]
             ELSE checked
    ELSE self

\* Author(name, affiliation, email, is_corresponding, is_non_academic,
\*        company_name): the generated __init__, then __post_init__.
NewAuthor(name, affiliation, email, is_corresponding, is_non_academic, company_name) ==
    PostInit([name |-> name, affiliation |-> affiliation, email |-> email,
              is_corresponding |-> is_corresponding,
              is_non_academic |-> is_non_academic,
              company_name |-> company_name])

---------------------------------------------------------------------------
(* parser.py: the values of a record's fields.  A field of a dict is a     *)
(* record [type, val]; type "absent" is a key the dict does not hold.      *)

Absent == [type |-> "absent", val |-> <<>>]
PyNone == [type |-> "none", val |-> <<>>]
PyStr(s) == [type |-> "str", val |-> s]
\* An int, val its decimal digits.
PyInt(digits) == [type |-> "int", val |-> digits]
PyBool(b) == [type |-> "bool", val |-> IF b THEN PyTrue ELSE PyFalse]
\* A list, val the sequence of its items.
PyList(items) == [type |-> "list", val |-> items]
\* A dict that is a field's value, val the sequence of its <<key, value>>
\* pairs.
PyDict(pairs) == [type |-> "dict", val |-> pairs]

\* d.get(key, default) where field is d's entry for key.
Get(field, default) == IF field.type = "absent" THEN default ELSE field

\* The value as an Author or Paper field holds it: a string, None, PyTrue,
\* PyFalse, an int, or a list or a dict of such values.
RECURSIVE Raw(_)
Raw(v) ==
    CASE v.type = "str" -> v.val
      [] v.type = "bool" -> v.val
      [] v.type = "int" -> <<"int">> \o v.val
      [] v.type = "list" ->
            <<"list">> \o [i \in 1..Len(v.val) |-> Raw(v.val[i])]
      [] v.type = "dict" ->
            <<"dict">> \o [i \in 1..Len(v.val) |->
                              <<v.val[i][1], Raw(v.val[i][2])>>]
      [] OTHER -> None

\* bool(v)
TruthyVal(v) ==
    CASE v.type = "str" -> v.val /= <<>>
      [] v.type = "bool" -> v.val = PyTrue
      [] v.type = "int" -> v.val /= <<"0">>
      [] v.type = "list" -> v.val /= <<>>
      [] v.type = "dict" -> v.val /= <<>>
      [] OTHER -> FALSE

---------------------------------------------------------------------------
(* parser.py: PubMedParser.parse_author.                                   *)

\* An Author nobody reads: the result slot of a call that raised.
NoAuthor ==
    [name |-> None, affiliation |-> None, email |-> None,
     is_corresponding |-> PyFalse, is_non_academic |-> FALSE,
     company_name |-> None]

\* Lines 56-64: the texts of the AffiliationInfo entries.  An entry is a
\* record [isdict, Affiliation]; aff_info["Affiliation"].strip() raises on
\* a value that is no string.
AffInfoRaises(info) ==
    \/ info.type \in {"none", "int", "bool"}
    \/ /\ info.type = "list"
       /\ \E i \in 1..Len(info.val) :
            /\ info.val[i].isdict
            /\ info.val[i].Affiliation.type \notin {"absent", "str"}

AffInfoTexts(info) ==
    IF info.type /= "list" THEN <<>>
    ELSE LET usable(e) == e.isdict /\ e.Affiliation.type = "str"
                          /\ StripWS(e.Affiliation.val) /= <<>>
             kept == SelectSeq(info.val, usable)
         IN  [i \in 1..Len(kept) |-> StripWS(kept[i].Affiliation.val)]

\* Lines 68-71: the direct affiliation field given as a list; an item that
\* is truthy and no string raises on .strip().
AffListRaises(items) ==
    \E i \in 1..Len(items) :
        TruthyVal(items[i]) /\ items[i].type /= "str"

AffListTexts(items) ==
    LET usable(e) == e.type = "str" /\ StripWS(e.val) /= <<>>
        kept == SelectSeq(items, usable)
    IN  [i \in 1..Len(kept) |-> StripWS(kept[i].val)]

\* Lines 56-73: the affiliation text of the record, None when it has none.
RecordAffiliation(author_data) ==
    LET texts == AffInfoTexts(author_data.AffiliationInfo)
        direct == author_data.affiliation
    IN  IF texts /= <<>> THEN Join(texts, <<";"," ">>)
        ELSE IF direct.type = "list"
             THEN IF AffListTexts(direct.val) /= <<>>
                  THEN Join(AffListTexts(direct.val), <<";"," ">>)
                  ELSE None
        ELSE IF direct.type = "str" THEN StripWS(direct.val)
        ELSE None

EmailStripChars == {".", ",", "(", ")", "<", ">", "[", "]", "{", "}"}

\* part.strip(".,()<>[]{}").lower()
EmailCandidate(part) == Lower(Strip(part, EmailStripChars))

\* Lines 80-82: the test a whitespace-delimited part passes to be the email.
IsEmailPart(part) ==
    /\ Contains(part, <<"@">>)
    /\ Contains(part, <<".">>)
    /\ Contains(EmailCandidate(part), <<"@">>)
    /\ Contains(Split(EmailCandidate(part), "@")[2], <<".">>)

\* Lines 76-86: <<email, affiliation>> after the scan of the parts.
ExtractEmail(affiliation) ==
    IF ~Truthy(affiliation) THEN <<None, affiliation>>
    ELSE LET parts == SplitWS(affiliation)
             hits == {i \in 1..Len(parts) : IsEmailPart(parts[i])}
         IN  IF hits = {} THEN <<None, affiliation>>
             ELSE LET part == parts[Min(hits)]
                  IN  <<EmailCandidate(part),
                        StripWS(Replace(affiliation, part, <<>>))>>

CorrespondingTerms ==
    << <<"c","o","r","r","e","s","p","o","n","d","i","n","g">>, <<"c","o","r","r","e","s","p","o","n","d","e","n","c","e">>, <<"w","h","o","m"," ","c","o","r","r","e","s","p","o","n","d","e","n","c","e">> >>

\* Lines 89-92: bool(email) or (affiliation and any(...)) or
\* author_data.get("is_corresponding", False); "or" returns its first
\* truthy operand, else its last.
IsCorresponding(email, affiliation, flag) ==
    IF Truthy(email) THEN PyTrue
    ELSE IF /\ Truthy(affiliation)
            /\ \E i \in 1..Len(CorrespondingTerms) :
                 Contains(Lower(affiliation), CorrespondingTerms[i])
         THEN PyTrue
    ELSE Raw(Get(flag, PyBool(FALSE)))

\* parse_author raises: author_data is no dict (no .get), or one of the
\* affiliation entries is no string.
ParseAuthorRaises(author_data) ==
    \/ ~author_data.isdict
    \/ AffInfoRaises(author_data.AffiliationInfo)
    \/ /\ AffInfoTexts(author_data.AffiliationInfo) = <<>>
       /\ author_data.affiliation.type = "list"
       /\ AffListRaises(author_data.affiliation.val)

\* PubMedParser.parse_author, for a record it does not raise on.
ParseAuthor(author_data) ==
    LET given == Get(author_data.name, PyStr(<<>>))
        name == IF TruthyVal(given) THEN Raw(given) ELSE <<"U","n","k","n","o","w","n"," ","A","u","t","h","o","r">>
        found == ExtractEmail(RecordAffiliation(author_data))
        email == found[1]
        affiliation == found[2]
    IN  NewAuthor(name, affiliation, email,
                  IsCorresponding(email, affiliation,
                                  author_data.is_corresponding),
                  DefaultIsNonAcademic, DefaultCompanyName)

---------------------------------------------------------------------------
(* The values the variables of the other operations hold while they idle.  *)

\* A date is <<year, month, day>>.
NoDate == <<0, 0, 0>>

NoPaper ==
    [pubmed_id |-> None, title |-> None, publication_date |-> NoDate,
     authors |-> <<>>, abstract |-> None]

NoView == [property |-> "none", value |-> None]

\* given: whether parse_search_results is the call to make.
NoResponse == [given |-> FALSE, has_result |-> FALSE, result |-> <<>>]

---------------------------------------------------------------------------
(* The affiliation texts the classifier is run on: every phrase of at most *)
(* MaxWords words, joined by a space or by a comma and a space, and the    *)
(* texts of the repository's tests and of the specification's examples.    *)

MaxWords == 3

Words ==
    { <<"I","n","c",".">>, <<"I","n","c">>, <<"P","r","i","n","c","e","t","o","n">>, <<"U","n","i","v","e","r","s","i","t","y">>, <<"R","e","s","e","a","r","c","h">> }

Separators == { <<" ">>, <<","," ">> }

RECURSIVE Phrases(_)
Phrases(n) ==
    IF n = 1 THEN Words
    ELSE {p \o sep \o w : p \in Phrases(n - 1), sep \in Separators, w \in Words}

PfizerText == <<"P","f","i","z","e","r"," ","I","n","c",".",","," ","R","e","s","e","a","r","c","h"," ","D","i","v","i","s","i","o","n">>
UniversityText == <<"U","n","i","v","e","r","s","i","t","y"," ","o","f"," ","S","c","i","e","n","c","e",","," ","D","e","p","a","r","t","m","e","n","t"," ","o","f"," ","B","i","o","l","o","g","y">>
NovartisText ==
    <<"N","o","v","a","r","t","i","s"," ","I","n","s","t","i","t","u","t","e","s"," ","f","o","r"," ","B","i","o","M","e","d","i","c","a","l"," ","R","e","s","e","a","r","c","h",","," ","H","a","r","v","a","r","d"," ","M","e","d","i","c","a","l"," ","S","c","h","o","o","l">>

ExtraAffiliations ==
    { PfizerText, UniversityText, NovartisText,
      <<"P","f","i","z","e","r"," ","I","n","c",".",","," ","c","o","l","l","a","b","o","r","a","t","i","n","g"," ","w","i","t","h"," ","H","a","r","v","a","r","d"," ","M","e","d","i","c","a","l"," ","S","c","h","o","o","l">>,
      <<"A","c","m","e">>,
      <<"A","c","m","e",","," ","I","n","c",".">>,
      <<"A","c","m","e"," ","I","n","c",".",","," ","U","n","i","v","e","r","s","i","t","y">>,
      <<"A","c","m","e"," ","I","n","c","."," ","(","j","a","n","e","@","a","c","m","e",".","c","o","m",")">>,
      <<"I","n","t","e","l"," ","C","o","r","p">>,
      <<"A","c","m","e"," ","P","h","a","r","m","a"," ","G","m","b","H",","," ","R","&","D"," ","U","n","i","t">>,
      <<"D","e","p","t","."," ","o","f"," ","C","h","e","m","i","s","t","r","y",","," ","A","c","m","e"," ","L","t","d",".",","," ","B","a","s","e","l">>,
      <<"P","r","i","n","c","e","t","o","n"," ","U","n","i","v","e","r","s","i","t","y",","," ","A","c","m","e"," ","I","n","c">>,
      <<"I",".","n",".","c">>,
      <<"I",".","n",".","c"," ","U","n","i","v","e","r","s","i","t","y">>,
      <<".",".">>,
      <<" ">> }

Affiliations ==
    UNION {Phrases(n) : n \in 1..MaxWords} \cup ExtraAffiliations
        \cup {None, <<>>}

\* The company_name arguments a caller passes to Author(...).
PassedCompanies == {None, <<"P","f","i","z","e","r"," ","I","n","c">>}

---------------------------------------------------------------------------
(* Author construction: Author(name, affiliation, ...) called directly,    *)
(* as the tests do, or by parse_author on a record with that affiliation.  *)

AuthorIdle ==
    /\ aff_in = None /\ nonacad_in = DefaultIsNonAcademic
    /\ company_in = DefaultCompanyName /\ author = NoAuthor

PaperIdle == authors = <<>> /\ paper = NoPaper /\ view = NoView

ParserIdle ==
    /\ api_response = NoResponse /\ papers = <<>>
    /\ date_in = Absent /\ date_out = NoDate

SearchIdle ==
    /\ query = <<>> /\ max_results = 0 /\ idlist = <<>> /\ pmids = <<>>

PipelineIdle == record_in = Absent /\ xml_authors = <<>> /\ rows = <<>>

InitAuthor ==
    /\ aff_in \in Affiliations
    /\ nonacad_in = DefaultIsNonAcademic
    /\ company_in = DefaultCompanyName
    /\ author = NoAuthor
    /\ op = "none"
    /\ raised = FALSE
    /\ PaperIdle /\ ParserIdle /\ SearchIdle /\ PipelineIdle

\* Author("Jane Smith", aff_in, None, False, is_non_academic, company_name)
ConstructAuthor ==
    /\ op = "none"
    /\ \E is_non_academic \in BOOLEAN, company_name \in PassedCompanies :
         /\ nonacad_in' = is_non_academic
         /\ company_in' = company_name
         /\ author' = NewAuthor(<<"J","a","n","e"," ","S","m","i","t","h">>, aff_in, None, PyFalse,
                                is_non_academic, company_name)
    /\ op' = "Author"
    /\ UNCHANGED <<aff_in, authors, paper, view, api_response, papers,
                   raised, date_in, date_out>>
    /\ UNCHANGED pipelineVars

\* The author record {"name": "Jane Smith", "affiliation": aff_in}.
AffiliationRecord(affiliation) ==
    [isdict |-> TRUE, name |-> PyStr(<<"J","a","n","e"," ","S","m","i","t","h">>),
     AffiliationInfo |-> Absent,
     affiliation |-> IF affiliation = None THEN PyNone
                     ELSE PyStr(affiliation),
     email |-> Absent, is_corresponding |-> Absent]

\* PubMedParser.parse_author({"name": "Jane Smith", "affiliation": aff_in})
ParseAuthorRecord ==
    /\ op = "none"
    /\ raised' = ParseAuthorRaises(AffiliationRecord(aff_in))
    /\ author' = IF raised' THEN NoAuthor
                 ELSE ParseAuthor(AffiliationRecord(aff_in))
    /\ op' = "parse_author"
    /\ UNCHANGED <<aff_in, nonacad_in, company_in, authors, paper, view,
                   api_response, papers, date_in, date_out>>
    /\ UNCHANGED pipelineVars

NextAuthor == ConstructAuthor \/ ParseAuthorRecord

SpecAuthor == InitAuthor /\ [][NextAuthor]_vars

---------------------------------------------------------------------------
(* The claims about the classifier (SpecAuthor).                           *)

\* The Author was built from its affiliation alone: by parse_author, or by
\* Author(name, affiliation) with the derived fields left at their defaults.
BuiltFromAffiliation ==
    \/ op = "parse_author" /\ ~raised
    \/ /\ op = "Author"
       /\ nonacad_in = DefaultIsNonAcademic
       /\ company_in = DefaultCompanyName

\* The 1-based indices at which a whitespace-delimited token of s starts.
TokenStarts(s) ==
    {i \in 1..Len(s) :
        s[i] \notin Whitespace /\ (i = 1 \/ s[i - 1] \in Whitespace)}

\* The token of s that starts at index i.
TokenAt(s, i) ==
    LET ends == {j \in i..Len(s) :
                    /\ \A k \in i..j : s[k] \notin Whitespace
                    /\ (j = Len(s) \/ s[j + 1] \in Whitespace)}
    IN  SubSeq(s, i, Min(ends))

\* The 0-based offsets of the tokens of the lower-cased text that are a
\* company keyword once their full stops are dropped.
WholeTokenCompanyOffsets(text) ==
    {i - 1 : i \in {j \in TokenStarts(text) :
                      Replace(TokenAt(Lower(text), j), <<".">>, <<>>)
                          \in COMPANY_KEYWORDS}}

\* A company keyword matches the text as a whole token.
WholeTokenCompany(text) == WholeTokenCompanyOffsets(text) /= {}

\* An academic keyword matches the text.
AcademicMatches(text) ==
    \E keyword \in ACADEMIC_KEYWORDS : Contains(Lower(text), keyword)

\* The least 0-based offset at which an academic keyword occurs.
EarliestAcademicOffset(text) ==
    Min({Find(Lower(text), keyword) :
           keyword \in {k \in ACADEMIC_KEYWORDS : Contains(Lower(text), k)}})

\* Some comma-separated segment of the text is neither empty after trimming
\* nor holds a noise word.
SomeSegmentSurvives(text) ==
    LET segs == Split(text, ",")
    IN  \E i \in 1..Len(segs) :
          /\ StripWS(segs[i]) /= <<>>
          /\ \A k \in 1..Len(SkipWords) :
               ~Contains(Lower(segs[i]), SkipWords[k])

\* C1 as stated: after construction, whatever was passed, company_name is
\* not None if and only if is_non_academic is true.
C1_CompanyIffNonAcademic ==
    (op \in {"Author", "parse_author"} /\ ~raised) =>
        (author.company_name /= None <=> author.is_non_academic)

\* C1 amended: for an Author built from its affiliation alone, company_name
\* is not None if and only if is_non_academic is true and some comma
\* segment of the affiliation survives the noise filter.
C1_CompanyIffNonAcademicWithSegment ==
    BuiltFromAffiliation =>
        (author.company_name /= None <=>
            (author.is_non_academic /\ SomeSegmentSurvives(author.affiliation)))

\* C1 witness: parse_author built a non-academic Author with a company name.
C1_Witness ==
    /\ op = "parse_author" /\ ~raised
    /\ author.is_non_academic
    /\ author.company_name /= None

\* C2 as stated: when both keyword classes match, is_non_academic is true
\* exactly when the earliest whole-token company keyword starts before the
\* earliest academic keyword.
C2_PositionOfWholeTokenDecides ==
    (/\ BuiltFromAffiliation
     /\ Truthy(author.affiliation)
     /\ AcademicMatches(author.affiliation)
     /\ WholeTokenCompany(author.affiliation)) =>
        (author.is_non_academic <=>
            Min(WholeTokenCompanyOffsets(author.affiliation))
                < EarliestAcademicOffset(author.affiliation))

\* C3 as stated: a whole-token company keyword and no academic keyword give
\* is_non_academic = true and a company_name that is not None.
C3_CompanyOnlyHasName ==
    (/\ BuiltFromAffiliation
     /\ Truthy(author.affiliation)
     /\ WholeTokenCompany(author.affiliation)
     /\ ~AcademicMatches(author.affiliation)) =>
        (author.is_non_academic /\ author.company_name /= None)

\* C3 amended: a whole-token company keyword and no academic keyword give
\* is_non_academic = true, and a company_name that is None exactly when no
\* comma segment survives the noise filter.
C3_CompanyOnlyNonAcademic ==
    (/\ BuiltFromAffiliation
     /\ Truthy(author.affiliation)
     /\ WholeTokenCompany(author.affiliation)
     /\ ~AcademicMatches(author.affiliation)) =>
        /\ author.is_non_academic
        /\ author.company_name = None
             <=> ~SomeSegmentSurvives(author.affiliation)

\* C3 witness: a company-only affiliation whose every segment is noise.
C3_Witness ==
    /\ BuiltFromAffiliation
    /\ Truthy(author.affiliation)
    /\ WholeTokenCompany(author.affiliation)
    /\ ~AcademicMatches(author.affiliation)
    /\ author.is_non_academic
    /\ author.company_name = None

\* C4: no whole-token company keyword (academic keywords only, or none)
\* gives is_non_academic = false and company_name = None.
C4_NoCompanyKeywordIsAcademic ==
    (/\ BuiltFromAffiliation
     /\ Truthy(author.affiliation)
     /\ ~WholeTokenCompany(author.affiliation)) =>
        (~author.is_non_academic /\ author.company_name = None)

\* C4 witness: a company keyword occurs inside a word ("inc" in
\* "Princeton") and as no token, and the Author is academic.
C4_Witness ==
    /\ BuiltFromAffiliation
    /\ Truthy(author.affiliation)
    /\ ~WholeTokenCompany(author.affiliation)
    /\ \E keyword \in COMPANY_KEYWORDS :
         Contains(Lower(author.affiliation), keyword)
    /\ ~author.is_non_academic

\* C5: an affiliation of None or "" never raises and gives (false, None).
C5_EmptyAffiliationIsDefault ==
    (/\ op \in {"Author", "parse_author"}
     /\ aff_in \in {None, <<>>}
     /\ nonacad_in = DefaultIsNonAcademic
     /\ company_in = DefaultCompanyName) =>
        /\ ~raised
        /\ author.is_non_academic = FALSE
        /\ author.company_name = None

\* C5 witness: Author(name, None) was constructed.
C5_Witness ==
    /\ op = "Author" /\ aff_in = None
    /\ nonacad_in = DefaultIsNonAcademic /\ company_in = DefaultCompanyName
    /\ ~author.is_non_academic

\* C6 as stated: the Novartis text is non-academic with its first segment as
\* the company, and the Pfizer text gives "Pfizer Inc".
C6_FirstSegmentIsCompany ==
    /\ (BuiltFromAffiliation /\ aff_in = NovartisText) =>
          /\ author.is_non_academic
          /\ author.company_name =
                <<"N","o","v","a","r","t","i","s"," ","I","n","s","t","i","t","u","t","e","s"," ","f","o","r"," ","B","i","o","M","e","d","i","c","a","l"," ","R","e","s","e","a","r","c","h">>
    /\ (BuiltFromAffiliation /\ aff_in = PfizerText) =>
          /\ author.is_non_academic
          /\ author.company_name = <<"P","f","i","z","e","r"," ","I","n","c">>

---------------------------------------------------------------------------
(* models.py: Paper and its derived views.                                 *)

\* The printable ASCII characters in code point order: those from 32 (" ")
\* to 95 ("_"), and those from 97 ("a") to 126 ("~").
CodePointsFrom32 ==
    << " ", "!", "\"", "#", "$", "%", "&", "'", "(", ")", "*", "+", ",",
       "-", ".", "/", "0", "1", "2", "3", "4", "5", "6", "7", "8", "9",
       ":", ";", "<", "=", ">", "?", "@",
       "A","B","C","D","E","F","G","H","I","J","K","L","M",
       "N","O","P","Q","R","S","T","U","V","W","X","Y","Z",
       "[", "\\", "]", "^", "_" >>

CodePointsFrom97 ==
    << "a","b","c","d","e","f","g","h","i","j","k","l","m",
       "n","o","p","q","r","s","t","u","v","w","x","y","z",
       "{", "|", "}", "~" >>

\* ord(c)
Ord(c) ==
    IF \E i \in 1..Len(CodePointsFrom32) : CodePointsFrom32[i] = c
    THEN 31 + CHOOSE i \in 1..Len(CodePointsFrom32) : CodePointsFrom32[i] = c
    ELSE 96 + CHOOSE i \in 1..Len(CodePointsFrom97) : CodePointsFrom97[i] = c

\* a < b for two strings: the order sorted() uses.
StrLess(a, b) ==
    \E k \in 1..(Len(b)) :
        /\ \A j \in 1..(k - 1) : j <= Len(a) /\ a[j] = b[j]
        /\ \/ k = Len(a) + 1
           \/ k <= Len(a) /\ Ord(a[k]) < Ord(b[k])

\* sorted(list(companies)), companies a set of strings.
RECURSIVE Sorted(_)
Sorted(companies) ==
    IF companies = {} THEN <<>>
    ELSE LET least == CHOOSE x \in companies :
                          \A y \in companies : x = y \/ StrLess(x, y)
         IN  <<least>> \o Sorted(companies \ {least})

IsNonAcademicAuthor(a) == a.is_non_academic

\* Paper.non_academic_authors
NonAcademicAuthors(self) == SelectSeq(self.authors, IsNonAcademicAuthor)

\* Mutant of CompanyAffiliations: the companies of all the authors, not of
\* the non-academic ones.
CompanyAffiliationsOfAllAuthors(self) ==
    Sorted({self.authors[i].company_name : i \in 1..Len(self.authors)}
               \ {None})

\* Paper.company_affiliations
CompanyAffiliations(self) ==
    LET among == NonAcademicAuthors(self)
        companies == {among[i].company_name :
                        i \in {j \in 1..Len(among) :
                                 among[j].company_name /= None}}
    IN  Sorted(companies)

\* The loop of lines 132-134: the email of the first corresponding author
\* that has one, None when the loop ends without returning.
RECURSIVE FirstCorrespondingEmail(_)
FirstCorrespondingEmail(list) ==
    IF list = <<>> THEN None
    ELSE IF Truthy(Head(list).is_corresponding) /\ Truthy(Head(list).email)
         THEN Head(list).email
         ELSE FirstCorrespondingEmail(Tail(list))

\* The loop of lines 137-139: the email of the first author that has one.
RECURSIVE FirstEmail(_)
FirstEmail(list) ==
    IF list = <<>> THEN None
    ELSE IF Truthy(Head(list).email) THEN Head(list).email
         ELSE FirstEmail(Tail(list))

\* Mutant of CorrespondingAuthorEmail: the corresponding authors are not
\* preferred.
CorrespondingAuthorEmailOfAnyone(self) == FirstEmail(self.authors)

\* Paper.corresponding_author_email
CorrespondingAuthorEmail(self) ==
    IF FirstCorrespondingEmail(self.authors) /= None
    THEN FirstCorrespondingEmail(self.authors)
    ELSE FirstEmail(self.authors)

---------------------------------------------------------------------------
(* A Paper assembled from Authors constructed one by one, as the test      *)
(* test_paper_properties does, and its properties read.                    *)

MaxAuthors == 3

\* The arguments of the Author(...) calls: the three of the test, and
\* authors with an empty email, with a company seen before, with derived
\* fields passed that the affiliation does not bear out, with no
\* affiliation, with a name that is no string.
AuthorArguments ==
    { <<<<"int", "5">>, <<"A","c","m","e"," ","I","n","c",".">>, None, PyFalse, FALSE, None>>,
      <<<<"J","o","h","n"," ","D","o","e">>, <<"U","n","i","v","e","r","s","i","t","y"," ","o","f"," ","S","c","i","e","n","c","e">>, None, PyTrue, FALSE, None>>,
      <<<<"J","a","n","e"," ","S","m","i","t","h">>, <<"P","f","i","z","e","r"," ","I","n","c",".">>, <<"j","a","n","e","@","p","f","i","z","e","r",".","c","o","m">>, PyFalse, TRUE,
        <<"P","f","i","z","e","r"," ","I","n","c">>>>,
      <<<<"B","o","b"," ","W","i","l","s","o","n">>, <<"N","o","v","a","r","t","i","s">>, None, PyFalse, TRUE, <<"N","o","v","a","r","t","i","s">>>>,
      <<<<"A","n","n"," ","L","e","e">>, <<"R","e","s","e","a","r","c","h"," ","I","n","c">>, <<>>, PyTrue, FALSE, None>>,
      <<<<"C","a","r","l"," ","R","o","e">>, <<"A","c","m","e"," ","I","n","c",".">>, <<"c","a","r","l","@","a","c","m","e",".","c","o","m">>, PyTrue, FALSE, None>>,
      <<<<"D","a","n"," ","P","o","e">>, <<"P","f","i","z","e","r"," ","I","n","c",".",","," ","R","e","s","e","a","r","c","h"," ","D","i","v","i","s","i","o","n">>, None, PyTrue, FALSE,
        None>>,
      <<<<"E","v","e"," ","M","o","e">>, <<"U","n","i","v","e","r","s","i","t","y"," ","o","f"," ","S","c","i","e","n","c","e">>, <<"e","v","e","@","s","c","i","e","n","c","e",".","e","d","u">>, PyFalse,
        FALSE, <<"P","f","i","z","e","r"," ","I","n","c">>>>,
      <<<<"F","a","y"," ","C","o","e">>, None, None, PyFalse, TRUE, None>> }

InitPaper ==
    /\ authors = <<>>
    /\ paper = NoPaper
    /\ view = NoView
    /\ op = "none"
    /\ raised = FALSE
    /\ AuthorIdle /\ ParserIdle /\ SearchIdle /\ PipelineIdle

\* authors.append(Author(...))
AddAuthor ==
    /\ op = "none"
    /\ Len(authors) < MaxAuthors
    /\ \E args \in AuthorArguments :
         authors' = Append(authors,
                           NewAuthor(args[1], args[2], args[3], args[4],
                                     args[5], args[6]))
    /\ UNCHANGED <<aff_in, nonacad_in, company_in, author, op, paper, view,
                   api_response, papers, raised, date_in, date_out>>
    /\ UNCHANGED pipelineVars

\* Paper(pubmed_id="12345", title="Test Paper",
\*       publication_date=date(2023, 1, 1), authors=authors)
CreatePaper ==
    /\ op = "none"
    /\ paper' = [pubmed_id |-> <<"1","2","3","4","5">>, title |-> <<"T","e","s","t"," ","P","a","p","e","r">>,
                 publication_date |-> <<2023, 1, 1>>, authors |-> authors,
                 abstract |-> None]
    /\ op' = "Paper"
    /\ UNCHANGED <<aff_in, nonacad_in, company_in, author, authors, view,
                   api_response, papers, raised, date_in, date_out>>
    /\ UNCHANGED pipelineVars

\* Mutant of AfterRead: the property filters self.authors in place.
AfterReadFiltered(self) == [self EXCEPT !.authors = NonAcademicAuthors(self)]

\* The Paper as reading a property leaves it.  The properties build their
\* value in a new list or set (lines 116, 121, 126) and assign to no field
\* of self or of an Author.
AfterRead(self) == self

\* paper.non_academic_authors
ReadNonAcademicAuthors ==
    /\ op = "Paper"
    /\ view' = [property |-> "non_academic_authors",
                value |-> NonAcademicAuthors(paper)]
    /\ paper' = AfterRead(paper)
    /\ UNCHANGED <<aff_in, nonacad_in, company_in, author, op, authors,
                   api_response, papers, raised, date_in, date_out>>
    /\ UNCHANGED pipelineVars

\* paper.company_affiliations
ReadCompanyAffiliations ==
    /\ op = "Paper"
    /\ view' = [property |-> "company_affiliations",
                value |-> CompanyAffiliations(paper)]
    /\ paper' = AfterRead(paper)
    /\ UNCHANGED <<aff_in, nonacad_in, company_in, author, op, authors,
                   api_response, papers, raised, date_in, date_out>>
    /\ UNCHANGED pipelineVars

\* paper.corresponding_author_email
ReadCorrespondingAuthorEmail ==
    /\ op = "Paper"
    /\ view' = [property |-> "corresponding_author_email",
                value |-> CorrespondingAuthorEmail(paper)]
    /\ paper' = AfterRead(paper)
    /\ UNCHANGED <<aff_in, nonacad_in, company_in, author, op, authors,
                   api_response, papers, raised, date_in, date_out>>
    /\ UNCHANGED pipelineVars

NextPaper ==
    \/ AddAuthor
    \/ CreatePaper
    \/ ReadNonAcademicAuthors
    \/ ReadCompanyAffiliations
    \/ ReadCorrespondingAuthorEmail

SpecPaper == InitPaper /\ [][NextPaper]_vars

---------------------------------------------------------------------------
(* The claims about the Paper views (SpecPaper).                           *)

\* The company names a list of authors contributes: those of its authors
\* with is_non_academic true, None left out.
CompaniesOfNonAcademic(list) ==
    {list[i].company_name :
        i \in {j \in 1..Len(list) : list[j].is_non_academic}} \ {None}

\* C7: company_affiliations is exactly the set of the non-None company
\* names of the non-academic authors, as a list in strictly ascending order
\* (sorted, no duplicates).
C7_CompanyAffiliationsSortedUnique ==
    view.property = "company_affiliations" =>
        /\ {view.value[i] : i \in 1..Len(view.value)}
              = CompaniesOfNonAcademic(paper.authors)
        /\ \A i \in 1..(Len(view.value) - 1) :
              StrLess(view.value[i], view.value[i + 1])

\* C7 witness: two companies returned where three authors are non-academic,
\* one of them with company_name None, and the authors list the companies
\* in descending order.
C7_Witness ==
    /\ view.property = "company_affiliations"
    /\ Len(view.value) = 2
    /\ Len(paper.authors) = 3
    /\ \A i \in 1..3 : paper.authors[i].is_non_academic
    /\ paper.authors[1].company_name = view.value[2]
    /\ paper.authors[2].company_name = None
    /\ paper.authors[3].company_name = view.value[1]

\* The indices of the authors with a non-empty email, and of those among
\* them that are corresponding.
WithEmail(list) == {i \in 1..Len(list) : list[i].email \notin {None, <<>>}}

CorrespondingWithEmail(list) ==
    {i \in WithEmail(list) : list[i].is_corresponding = PyTrue}

\* C8: corresponding_author_email is the email of the first corresponding
\* author with a non-empty email, else of the first author with a non-empty
\* email, and None only when no author has one.
C8_CorrespondingAuthorEmail ==
    view.property = "corresponding_author_email" =>
        LET list == paper.authors
        IN  /\ CorrespondingWithEmail(list) /= {} =>
                 view.value = list[Min(CorrespondingWithEmail(list))].email
            /\ (CorrespondingWithEmail(list) = {} /\ WithEmail(list) /= {}) =>
                 view.value = list[Min(WithEmail(list))].email
            /\ view.value = None <=> WithEmail(list) = {}

\* C8 witness: the first author with an email is not corresponding, a later
\* one is, and the later one's email is returned.
C8_Witness ==
    /\ view.property = "corresponding_author_email"
    /\ CorrespondingWithEmail(paper.authors) /= {}
    /\ Min(WithEmail(paper.authors))
          < Min(CorrespondingWithEmail(paper.authors))
    /\ view.value
          = paper.authors[Min(CorrespondingWithEmail(paper.authors))].email

---------------------------------------------------------------------------
(* parser.py: PubMedParser.parse_date.  datetime.strptime matches the      *)
(* whole text against the format's pattern: "%Y" is four digits, "%m" is   *)
(* 1[0-2]|0[1-9]|[1-9], "%d" is 3[01]|[12]\d|0[1-9]|[1-9]| [1-9] and "%b"  *)
(* a month's abbreviated name in any case; then date(year, month, day)     *)
(* must exist.  A date is <<year, month, day>>.                            *)

Digits == <<"0", "1", "2", "3", "4", "5", "6", "7", "8", "9">>

IsDigit(c) == \E i \in 1..10 : Digits[i] = c

DigitValue(c) == (CHOOSE i \in 1..10 : Digits[i] = c) - 1

\* int(s) for a string of digits.
RECURSIVE ToInt(_)
ToInt(s) ==
    IF s = <<>> THEN 0
    ELSE 10 * ToInt(SubSeq(s, 1, Len(s) - 1)) + DigitValue(s[Len(s)])

MonthAbbreviations ==
    << <<"j","a","n">>, <<"f","e","b">>, <<"m","a","r">>, <<"a","p","r">>, <<"m","a","y">>, <<"j","u","n">>,
       <<"j","u","l">>, <<"a","u","g">>, <<"s","e","p">>, <<"o","c","t">>, <<"n","o","v">>, <<"d","e","c">> >>

\* "%Y": \d\d\d\d
MatchesYear(s) == Len(s) = 4 /\ \A i \in 1..4 : IsDigit(s[i])

\* "%m": 1[0-2]|0[1-9]|[1-9]
MatchesMonthNumber(s) ==
    /\ Len(s) \in {1, 2}
    /\ \A i \in 1..Len(s) : IsDigit(s[i])
    /\ ToInt(s) \in 1..12

\* "%b": one of the abbreviated month names, the case ignored.
MatchesMonthName(s) ==
    \E i \in 1..12 : MonthAbbreviations[i] = Lower(s)

\* "%d": 3[01]|[12]\d|0[1-9]|[1-9]| [1-9]
MatchesDay(s) ==
    \/ /\ Len(s) \in {1, 2}
       /\ \A i \in 1..Len(s) : IsDigit(s[i])
       /\ ToInt(s) \in 1..31
    \/ Len(s) = 2 /\ s[1] = " " /\ IsDigit(s[2]) /\ s[2] /= "0"

IsLeapYear(year) ==
    year % 4 = 0 /\ (year % 100 /= 0 \/ year % 400 = 0)

DaysInMonth(year, month) ==
    IF month = 2 THEN (IF IsLeapYear(year) THEN 29 ELSE 28)
    ELSE IF month \in {4, 6, 9, 11} THEN 30 ELSE 31

\* date(year, month, day) raises ValueError.
NoSuchDate(year, month, day) ==
    year < 1 \/ day > DaysInMonth(year, month)

\* datetime.strptime(date_str, "%Y-%m-%d").date() when by_name is FALSE,
\* datetime.strptime(date_str, "%Y-%b-%d").date() when it is TRUE:
\* [error |-> whether ValueError is raised, date |-> the date].
Strptime(date_str, by_name) ==
    LET parts == Split(date_str, "-")
        syntax_ok ==
            /\ Len(parts) = 3
            /\ MatchesYear(parts[1])
            /\ IF by_name THEN MatchesMonthName(parts[2])
                          ELSE MatchesMonthNumber(parts[2])
            /\ MatchesDay(parts[3])
        year == ToInt(parts[1])
        month == IF by_name
                 THEN CHOOSE i \in 1..12 :
                          MonthAbbreviations[i] = Lower(parts[2])
                 ELSE ToInt(parts[2])
        day == ToInt(LStrip(parts[3], {" "}))
    IN  IF ~syntax_ok THEN [error |-> TRUE, date |-> NoDate]
        ELSE IF NoSuchDate(year, month, day)
             THEN [error |-> TRUE, date |-> NoDate]
        ELSE [error |-> FALSE, date |-> <<year, month, day>>]

\* date(1900, 1, 1)
DefaultDate == <<1900, 1, 1>>

\* PubMedParser.parse_date: [raised, date].  strptime raises TypeError,
\* which is not caught, for an argument that is no string.
ParseDate(date_str) ==
    IF date_str.type /= "str" THEN [raised |-> TRUE, date |-> NoDate]
    ELSE IF ~Strptime(date_str.val, FALSE).error
         THEN [raised |-> FALSE, date |-> Strptime(date_str.val, FALSE).date]
    ELSE IF ~Strptime(date_str.val, TRUE).error
         THEN [raised |-> FALSE, date |-> Strptime(date_str.val, TRUE).date]
    ELSE [raised |-> FALSE, date |-> DefaultDate]

---------------------------------------------------------------------------
(* The arguments parse_date is run on: the texts year-month-day of the     *)
(* parts below, texts of other shapes, and the dicts of the test           *)
(* test_date_parsing.                                                      *)

YearTexts == { <<"2","0","2","3">>, <<"2","0","2","4">>, <<"0","0","0","0">>, <<"2","3">> }
MonthTexts == { <<"0","6">>, <<"6">>, <<"0","2">>, <<"1","3">>, <<"0","0">>, <<"J","u","n">>, <<"j","u","n">>, <<"F","e","b">>, <<"J","u","n","e">> }
DayTexts == { <<"1","5">>, <<"5">>, <<" ","5">>, <<"2","9">>, <<"3","0">>, <<"3","1">>, <<"3","2">>, <<"0","0">> }

OtherDateTexts ==
    { <<>>, <<"2","0","2","3">>, <<"2","0","2","3","-","0","6">>, <<"2","0","2","3","-","0","6","-","1","5","-","0","1">>, <<"2","0","2","3","/","0","6","/","1","5">>,
      <<"2","0","2","3","-","0","6","-","1","5"," ">>, <<"-","1","-","1">>, <<"2","0","2","3","-","1","-","1">>, <<"u","n","k","n","o","w","n">> }

CompleteDateDict ==
    PyDict(<< <<<<"y","e","a","r">>, PyStr(<<"2","0","2","3">>)>>, <<<<"m","o","n","t","h">>, PyStr(<<"0","6">>)>>,
              <<<<"d","a","y">>, PyStr(<<"1","5">>)>> >>)
YearOnlyDict == PyDict(<< <<<<"y","e","a","r">>, PyStr(<<"2","0","2","3">>)>> >>)
EmptyDict == PyDict(<<>>)

DateArguments ==
    {PyStr(y \o <<"-">> \o m \o <<"-">> \o d) :
        y \in YearTexts, m \in MonthTexts, d \in DayTexts}
      \cup {PyStr(t) : t \in OtherDateTexts}
      \cup {CompleteDateDict, YearOnlyDict, EmptyDict, PyNone,
            PyInt(<<"2","0","2","3">>)}

---------------------------------------------------------------------------
(* parser.py: PubMedParser.parse_paper and parse_search_results.  A paper  *)
(* record is [isdict, uid, title, pubdate, authors, abstract], an author   *)
(* record [isdict, name, AffiliationInfo, affiliation, email,              *)
(* is_corresponding]; isdict is FALSE for a value that is no dict.         *)

\* str(v)
\* repr(v): a string in quotes, its backslashes, quotes and unprintable
\* characters escaped (hex: the unprintable characters from U+0001 to U+00FF
\* that are written \xhh, with the two digits);
\* a list in brackets and a dict in braces, the items separated by ", ".
RECURSIVE Repr(_)
Repr(v) ==
    LET hex ==
            <<
               <<"", "0", "1">>, <<"", "0", "2">>, <<"", "0", "3">>, <<"", "0", "4">>,
               <<"", "0", "5">>, <<"", "0", "6">>, <<"", "0", "7">>, <<"", "0", "8">>,
               <<"", "0", "b">>, <<"\f", "0", "c">>, <<"", "0", "e">>, <<"", "0", "f">>,
               <<"", "1", "0">>, <<"", "1", "1">>, <<"", "1", "2">>, <<"", "1", "3">>,
               <<"", "1", "4">>, <<"", "1", "5">>, <<"", "1", "6">>, <<"", "1", "7">>,
               <<"", "1", "8">>, <<"", "1", "9">>, <<"", "1", "a">>, <<"", "1", "b">>,
               <<"", "1", "c">>, <<"", "1", "d">>, <<"", "1", "e">>, <<"", "1", "f">>,
               <<"", "7", "f">>, <<"", "8", "0">>, <<"", "8", "1">>, <<"", "8", "2">>,
               <<"", "8", "3">>, <<"", "8", "4">>, <<"", "8", "5">>, <<"", "8", "6">>,
               <<"", "8", "7">>, <<"", "8", "8">>, <<"", "8", "9">>, <<"", "8", "a">>,
               <<"", "8", "b">>, <<"", "8", "c">>, <<"", "8", "d">>, <<"", "8", "e">>,
               <<"", "8", "f">>, <<"", "9", "0">>, <<"", "9", "1">>, <<"", "9", "2">>,
               <<"", "9", "3">>, <<"", "9", "4">>, <<"", "9", "5">>, <<"", "9", "6">>,
               <<"", "9", "7">>, <<"", "9", "8">>, <<"", "9", "9">>, <<"", "9", "a">>,
               <<"", "9", "b">>, <<"", "9", "c">>, <<"", "9", "d">>, <<"", "9", "e">>,
               <<"", "9", "f">>, <<" ", "a", "0">>, <<"­", "a", "d">> >>
        escaped(c, quote) ==
            IF c = "\\" \/ c = quote THEN <<"\\", c>>
            ELSE IF c = "\n" THEN <<"\\", "n">>
            ELSE IF c = "\r" THEN <<"\\", "r">>
            ELSE IF c = "\t" THEN <<"\\", "t">>
            ELSE IF \E k \in 1..Len(hex) : hex[k][1] = c
            THEN LET h == hex[CHOOSE k \in 1..Len(hex) : hex[k][1] = c]
                 IN  <<"\\", "x", h[2], h[3]>>
            ELSE <<c>>
        quoted(t) ==
            LET quote == IF Contains(t, <<"'">>) /\ ~Contains(t, <<"\"">>)
                         THEN "\"" ELSE "'"
            IN  <<quote>> \o Join([i \in 1..Len(t) |-> escaped(t[i], quote)],
                                  <<>>) \o <<quote>>
    IN  CASE v.type = "str" -> quoted(v.val)
          [] v.type = "int" -> v.val
          [] v.type = "bool" -> IF v.val = PyTrue THEN <<"T","r","u","e">>
                                ELSE <<"F","a","l","s","e">>
          [] v.type = "list" ->
                <<"[">> \o Join([i \in 1..Len(v.val) |-> Repr(v.val[i])],
                                <<",", " ">>) \o <<"]">>
          [] v.type = "dict" ->
                <<"{">> \o Join([i \in 1..Len(v.val) |->
                                    quoted(v.val[i][1]) \o <<":", " ">>
                                       \o Repr(v.val[i][2])],
                                <<",", " ">>) \o <<"}">>
          [] OTHER -> <<"N","o","n","e">>

Str(v) == IF v.type = "str" THEN v.val ELSE Repr(v)

\* The exceptions of lines 113-124 and 128 that the handler of line 145
\* turns into None: no dict, a title that is no string, a date argument
\* that is no string, an authors value that cannot be iterated.
ParsePaperRaises(paper_data) ==
    \/ ~paper_data.isdict
    \/ Get(paper_data.title, PyStr(<<>>)).type /= "str"
    \/ /\ StripWS(Get(paper_data.title, PyStr(<<>>)).val) /= <<>>
       /\ Str(Get(paper_data.uid, PyStr(<<>>))) /= <<>>
       /\ \/ /\ TruthyVal(Get(paper_data.pubdate, PyStr(<<>>)))
             /\ ParseDate(Get(paper_data.pubdate, PyStr(<<>>))).raised
          \/ Get(paper_data.authors, PyList(<<>>)).type
                \in {"none", "int", "bool"}

\* Lines 127-134: the Authors of the records parse_author does not raise on.
ParseAuthors(authors_value) ==
    IF authors_value.type /= "list" THEN <<>>
    ELSE LET parsed(author_data) == ~ParseAuthorRaises(author_data)
             good == SelectSeq(authors_value.val, parsed)
         IN  [i \in 1..Len(good) |-> ParseAuthor(good[i])]

\* PubMedParser.parse_paper: [ok |-> a Paper is returned (not None), paper].
ParsePaper(paper_data) ==
    IF ParsePaperRaises(paper_data) THEN [ok |-> FALSE, paper |-> NoPaper]
    ELSE LET pubmed_id == Str(Get(paper_data.uid, PyStr(<<>>)))
             title == StripWS(Get(paper_data.title, PyStr(<<>>)).val)
             pub_date_str == Get(paper_data.pubdate, PyStr(<<>>))
             pub_date == IF ~TruthyVal(pub_date_str) THEN DefaultDate
                         ELSE ParseDate(pub_date_str).date
         IN  IF title = <<>> \/ pubmed_id = <<>>
             THEN [ok |-> FALSE, paper |-> NoPaper]
             ELSE [ok |-> TRUE,
                   paper |->
                     [pubmed_id |-> pubmed_id, title |-> title,
                      publication_date |-> pub_date,
                      authors |->
                        ParseAuthors(Get(paper_data.authors, PyList(<<>>))),
                      abstract |->
                        Raw(Get(paper_data.abstract, PyStr(<<>>)))]]

\* The loop of lines 165-171 over api_response["result"].items(), an entry
\* being [key, data].
RECURSIVE ParseEntries(_)
ParseEntries(entries) ==
    IF entries = <<>> THEN <<>>
    ELSE IF Head(entries).key = <<"u","i","d","s">> THEN ParseEntries(Tail(entries))
    ELSE IF ParsePaper(Head(entries).data).ok
         THEN <<ParsePaper(Head(entries).data).paper>>
                  \o ParseEntries(Tail(entries))
    ELSE ParseEntries(Tail(entries))

\* PubMedParser.parse_search_results: [raised, papers].  A "result" that is
\* no dict has no items(): AttributeError, not caught.
ParseSearchResults(response) ==
    IF ~response.has_result THEN [raised |-> FALSE, papers |-> <<>>]
    ELSE IF response.result.type /= "dict"
         THEN [raised |-> TRUE, papers |-> <<>>]
    ELSE [raised |-> FALSE, papers |-> ParseEntries(response.result.val)]

---------------------------------------------------------------------------
(* The responses parse_search_results is run on: every batch of at most    *)
(* MaxBatch entries of the pool below, each entry under its own key.       *)

MaxBatch == 2

AuthorRecord(name, affiliation) ==
    [isdict |-> TRUE, name |-> name, AffiliationInfo |-> Absent,
     affiliation |-> affiliation, email |-> Absent,
     is_corresponding |-> Absent]

JaneRecord ==
    AuthorRecord(PyStr(<<"J","a","n","e"," ","S","m","i","t","h">>),
                 PyStr(<<"P","f","i","z","e","r"," ","I","n","c",".",","," ","R","e","s","e","a","r","c","h"," ","D","i","v","i","s","i","o","n"," ","j","a","n","e","@","p","f","i","z","e","r",".","c","o","m">>))

JohnRecord ==
    AuthorRecord(PyStr(<<"J","o","h","n"," ","D","o","e">>),
                 PyStr(<<"U","n","i","v","e","r","s","i","t","y"," ","o","f"," ","S","c","i","e","n","c","e",","," ","D","e","p","a","r","t","m","e","n","t"," ","o","f"," ","B","i","o","l","o","g","y">>))

\* An author given as None, not as a dict.
NoDictAuthor ==
    [isdict |-> FALSE, name |-> Absent, AffiliationInfo |-> Absent,
     affiliation |-> Absent, email |-> Absent, is_corresponding |-> Absent]

\* An author whose affiliation list holds a number.
NumberInListAuthor ==
    AuthorRecord(PyStr(<<"B","o","b"," ","W","i","l","s","o","n">>),
                 PyList(<<PyStr(<<"A","c","m","e"," ","I","n","c",".">>), PyInt(<<"5">>)>>))

\* An author without a name, with AffiliationInfo entries.
AffiliationInfoAuthor ==
    [isdict |-> TRUE, name |-> Absent,
     AffiliationInfo |->
        PyList(<< [isdict |-> TRUE, Affiliation |-> PyStr(<<"N","o","v","a","r","t","i","s",","," ","B","a","s","e","l">>)],
                  [isdict |-> TRUE, Affiliation |-> PyStr(<<" ">>)],
                  [isdict |-> FALSE, Affiliation |-> Absent] >>),
     affiliation |-> PyStr(<<"U","n","i","v","e","r","s","i","t","y"," ","H","o","s","p","i","t","a","l">>), email |-> Absent,
     is_corresponding |-> PyBool(TRUE)]

PaperRecord(uid, title, pubdate, authors_value) ==
    [isdict |-> TRUE, uid |-> uid, title |-> title, pubdate |-> pubdate,
     authors |-> authors_value, abstract |-> PyStr(<<"A","b","s","t","r","a","c","t",".">>)]

\* A paper record given as None, not as a dict.
NoDictPaper ==
    [isdict |-> FALSE, uid |-> Absent, title |-> Absent, pubdate |-> Absent,
     authors |-> Absent, abstract |-> Absent]

TwoAuthors == PyList(<<JaneRecord, JohnRecord>>)

EntryPool ==
    { [key |-> <<"1","0","1">>,
       data |-> PaperRecord(PyStr(<<"1","0","1">>), PyStr(<<"A","l","p","h","a">>),
                            PyStr(<<"2","0","2","3","-","0","6","-","1","5">>), TwoAuthors)],
      [key |-> <<"1","0","2">>,
       data |-> PaperRecord(PyInt(<<"1","0","2">>), PyStr(<<" ","B","e","t","a"," ">>),
                            PyStr(<<"2","0","2","3","-","J","u","n","-","1","5">>), Absent)],
      [key |-> <<"1","0","3">>,
       data |-> PaperRecord(PyStr(<<"1","0","3">>), Absent, PyStr(<<"2","0","2","3","-","0","6","-","1","5">>),
                            TwoAuthors)],
      [key |-> <<"1","0","4">>,
       data |-> PaperRecord(PyStr(<<"1","0","4">>), PyStr(<<" ">>), PyStr(<<"2","0","2","3","-","0","6","-","1","5">>),
                            TwoAuthors)],
      [key |-> <<"1","0","5">>,
       data |-> PaperRecord(Absent, PyStr(<<"E","p","s","i","l","o","n">>), PyStr(<<"2","0","2","3","-","0","6","-","1","5">>),
                            TwoAuthors)],
      [key |-> <<"1","0","6">>,
       data |-> PaperRecord(PyStr(<<>>), PyStr(<<"Z","e","t","a">>), PyStr(<<"2","0","2","3","-","0","6","-","1","5">>),
                            TwoAuthors)],
      [key |-> <<"1","0","7">>,
       data |-> PaperRecord(PyNone, PyStr(<<"E","t","a">>), PyStr(<<"2","0","2","3","-","0","6","-","1","5">>),
                            TwoAuthors)],
      [key |-> <<"1","0","8">>,
       data |-> PaperRecord(PyStr(<<"1","0","8">>), PyNone, PyStr(<<"2","0","2","3","-","0","6","-","1","5">>),
                            TwoAuthors)],
      [key |-> <<"1","0","9">>,
       data |-> PaperRecord(PyStr(<<"1","0","9">>), PyStr(<<"I","o","t","a">>), PyStr(<<"2","0","2","3">>),
                            TwoAuthors)],
      [key |-> <<"1","1","0">>,
       data |-> PaperRecord(PyStr(<<"1","1","0">>), PyStr(<<"K","a","p","p","a">>), YearOnlyDict,
                            TwoAuthors)],
      [key |-> <<"1","1","1">>,
       data |-> PaperRecord(PyStr(<<"1","1","1">>), PyStr(<<"L","a","m","b","d","a">>), Absent,
                            PyList(<<AffiliationInfoAuthor>>))],
      [key |-> <<"1","1","2">>,
       data |-> PaperRecord(PyStr(<<"1","1","2">>), PyStr(<<"M","u">>), PyStr(<<"2","0","2","3","-","0","2","-","3","0">>),
                            PyList(<<JaneRecord, NoDictAuthor,
                                     NumberInListAuthor, JohnRecord>>))],
      [key |-> <<"1","1","3">>,
       data |-> PaperRecord(PyStr(<<"1","1","3">>), PyStr(<<"N","u">>), PyStr(<<"2","0","2","3","-","0","6","-","1","5">>),
                            PyNone)],
      [key |-> <<"1","1","4">>, data |-> NoDictPaper],
      [key |-> <<"u","i","d","s">>, data |-> NoDictPaper] }

\* The sequences of n entries of the pool, no entry twice.
RECURSIVE Batches(_)
Batches(n) ==
    IF n = 0 THEN {<<>>}
    ELSE {Append(b, e) :
            b \in Batches(n - 1),
            e \in EntryPool} \ {b \in {Append(c, e) : c \in Batches(n - 1),
                                                      e \in EntryPool} :
                                   \E i \in 1..(n - 1) : b[i] = b[n]}

Responses ==
    {[given |-> TRUE, has_result |-> TRUE, result |-> PyDict(b)] :
        b \in UNION {Batches(n) : n \in 0..MaxBatch}}
      \cup {[given |-> TRUE, has_result |-> FALSE, result |-> PyNone],
            [given |-> TRUE, has_result |-> TRUE, result |-> PyNone]}

---------------------------------------------------------------------------
(* The parser's entry points, each called once on an argument.             *)

InitParser ==
    /\ \/ date_in \in DateArguments /\ api_response = NoResponse
       \/ date_in = Absent /\ api_response \in Responses
    /\ date_out = NoDate
    /\ papers = <<>>
    /\ raised = FALSE
    /\ op = "none"
    /\ AuthorIdle /\ PaperIdle /\ SearchIdle /\ PipelineIdle

\* PubMedParser.parse_date(date_in)
ParseDateCall ==
    /\ op = "none"
    /\ date_in /= Absent
    /\ raised' = ParseDate(date_in).raised
    /\ date_out' = ParseDate(date_in).date
    /\ op' = "parse_date"
    /\ UNCHANGED <<aff_in, nonacad_in, company_in, author, authors, paper,
                   view, api_response, papers, date_in>>
    /\ UNCHANGED pipelineVars

\* PubMedParser.parse_search_results(api_response)
ParseSearchResultsCall ==
    /\ op = "none"
    /\ api_response.given
    /\ raised' = ParseSearchResults(api_response).raised
    /\ papers' = ParseSearchResults(api_response).papers
    /\ op' = "parse_search_results"
    /\ UNCHANGED <<aff_in, nonacad_in, company_in, author, authors, paper,
                   view, api_response, date_in, date_out>>
    /\ UNCHANGED pipelineVars

NextParser == ParseDateCall \/ ParseSearchResultsCall

SpecParser == InitParser /\ [][NextParser]_vars

---------------------------------------------------------------------------
(* What the specification says of dates that cannot be parsed and of       *)
(* records that are malformed.                                             *)

\* A date argument that gives a year and nothing else.
YearOnly(d) ==
    \/ d = YearOnlyDict
    \/ /\ d.type = "str"
       /\ Len(d.val) = 4
       /\ \A i \in 1..4 : IsDigit(d.val[i])

YearOf(d) == IF d.type = "str" THEN ToInt(d.val) ELSE ToInt(d.val[1][2].val)

\* A date argument that is empty, or a text that is not three parts
\* joined by "-" and is no year.
EmptyOrInvalidDate(d) ==
    \/ d \in {PyNone, EmptyDict, PyStr(<<>>)}
    \/ d.type = "str" /\ ~YearOnly(d) /\ Len(Split(d.val, "-")) /= 3

\* A record with an id and a title, and with authors that can be read.
HasIdAndTitle(data) ==
    /\ data.isdict
    /\ data.uid.type \in {"str", "int"} /\ data.uid.val /= <<>>
    /\ data.title.type = "str" /\ StripWS(data.title.val) /= <<>>
    /\ data.authors.type \in {"absent", "list"}

\* The entries parse_search_results hands to parse_paper.
RecordEntries ==
    LET record(e) == e.key /= <<"u","i","d","s">>
    IN  SelectSeq(api_response.result.val, record)

ParsedBatch ==
    /\ op = "parse_search_results"
    /\ api_response.has_result
    /\ api_response.result.type = "dict"

\* C9: a date that cannot be parsed never fails the record.  parse_date
\* does not raise; it returns 1900-01-01 for an empty or invalid argument
\* and January 1 of the year for an argument that gives only a year; and
\* parse_search_results returns a Paper for every record that has an id and
\* a title, whatever its pubdate is.
C9_UnparseableDateNeverFails ==
    /\ op = "parse_date" =>
         /\ ~raised
         /\ YearOnly(date_in) => date_out = <<YearOf(date_in), 1, 1>>
         /\ EmptyOrInvalidDate(date_in) => date_out = DefaultDate
    /\ ParsedBatch =>
         \A i \in 1..Len(RecordEntries) :
            HasIdAndTitle(RecordEntries[i].data) =>
               \E j \in 1..Len(papers) :
                  papers[j].pubmed_id = Str(RecordEntries[i].data.uid)

\* A record whose id is missing or empty.
IdMissing(data) ==
    \/ data.uid.type \in {"absent", "none"}
    \/ data.uid.type = "str" /\ data.uid.val = <<>>

\* A record whose title is missing or empty.
TitleMissing(data) ==
    \/ data.title.type \in {"absent", "none"}
    \/ data.title.type = "str" /\ StripWS(data.title.val) = <<>>

\* A record that is malformed otherwise: no dict, a pubdate that is no
\* text, authors that are no list.
OtherwiseMalformed(data) ==
    \/ ~data.isdict
    \/ data.pubdate.type \notin {"absent", "none", "str"}
    \/ data.authors.type \notin {"absent", "list"}

\* A malformed author record: no dict, or an affiliation list with an item
\* that is no text.
MalformedAuthor(author_data) ==
    \/ ~author_data.isdict
    \/ /\ author_data.affiliation.type = "list"
       /\ \E i \in 1..Len(author_data.affiliation.val) :
             author_data.affiliation.val[i].type /= "str"

\* The names parse_author gives the well-formed authors of a record.
ExpectedAuthorNames(data) ==
    IF data.authors.type /= "list" THEN <<>>
    ELSE LET wellformed(a) == ~MalformedAuthor(a)
             kept == SelectSeq(data.authors.val, wellformed)
         IN  [i \in 1..Len(kept) |->
                IF kept[i].name.type = "str" THEN kept[i].name.val
                ELSE <<"U","n","k","n","o","w","n"," ","A","u","t","h","o","r">>]

\* The records of the batch a Paper is due for.
ExpectedRecords ==
    LET due(e) == /\ ~OtherwiseMalformed(e.data)
                  /\ ~IdMissing(e.data)
                  /\ ~TitleMissing(e.data)
    IN  SelectSeq(RecordEntries, due)

\* C10: parse_search_results is partial-failure tolerant.  For every batch
\* it does not raise; the Papers it returns are, in the batch's order, one
\* for each record that is not malformed and has an id and a title, none
\* for the others; and each Paper holds, in order, the authors of its
\* record that are not malformed.
C10_PartialFailureTolerant ==
    ParsedBatch =>
       /\ ~raised
       /\ Len(papers) = Len(ExpectedRecords)
       /\ \A i \in 1..Len(papers) :
            i <= Len(ExpectedRecords) =>
               /\ papers[i].pubmed_id = Str(ExpectedRecords[i].data.uid)
               /\ [j \in 1..Len(papers[i].authors) |->
                     papers[i].authors[j].name]
                    = ExpectedAuthorNames(ExpectedRecords[i].data)

---------------------------------------------------------------------------
(* api.py: PubMedAPI.search.  The search endpoint is not requested: the    *)
(* idlist its response would report is the environment's, in idlist.       *)

\* Line 107-110.
test_pmids ==
    << <<"4","0","0","5","3","3","8","9">>, <<"4","0","0","5","3","3","8","7">>, <<"4","0","0","5","3","3","5","3">>, <<"4","0","0","5","3","3","4","9">>, <<"4","0","0","5","3","3","4","3">>,
       <<"4","0","0","5","3","3","3","6">>, <<"4","0","0","5","3","3","0","8">>, <<"4","0","0","5","3","2","9","0">>, <<"4","0","0","5","3","2","8","5">>, <<"4","0","0","5","3","2","8","1">> >>

\* seq[:n]
SliceTo(seq, n) ==
    IF n >= 0 THEN SubSeq(seq, 1, Min({n, Len(seq)}))
    ELSE IF Len(seq) + n > 0 THEN SubSeq(seq, 1, Len(seq) + n)
    ELSE <<>>

\* PubMedAPI.search(query, max_results), the endpoint reporting
\* reported_idlist for the query.
Search(search_query, limit, reported_idlist) == SliceTo(test_pmids, limit)

\* The largest max_results given, but for the default.
MaxResults == 11

DefaultMaxResults == 100

Queries == {<<"t","e","s","t"," ","q","u","e","r","y">>, <<"c","a","n","c","e","r"," ","i","m","m","u","n","o","t","h","e","r","a","p","y">>, <<>>}

\* The idlists the endpoint reports: that of test_pubmed_api_search, none,
\* and lists of the ids the code holds.
IdLists ==
    { <<<<"1","2","3","4","5">>, <<"6","7","8","9","0">>>>, <<>>, <<<<"4","0","0","5","3","3","8","9">>>>, test_pmids,
      SubSeq(test_pmids, 1, 2), <<<<"4","0","0","5","3","3","8","7">>, <<"4","0","0","5","3","3","8","9">>>> }

InitSearch ==
    /\ query \in Queries
    /\ max_results \in (-2..MaxResults) \cup {DefaultMaxResults}
    /\ idlist \in IdLists
    /\ pmids = <<>>
    /\ op = "none"
    /\ raised = FALSE
    /\ record_in = Absent /\ xml_authors = <<>> /\ rows = <<>>
    /\ AuthorIdle /\ PaperIdle /\ ParserIdle

\* api.search(query, max_results)
SearchCall ==
    /\ op = "none"
    /\ pmids' = Search(query, max_results, idlist)
    /\ op' = "search"
    /\ UNCHANGED <<aff_in, nonacad_in, company_in, author, authors, paper,
                   view, api_response, papers, raised, date_in, date_out,
                   query, max_results, idlist, record_in, xml_authors, rows>>

NextSearch == SearchCall

SpecSearch == InitSearch /\ [][NextSearch]_vars

\* C11: search returns exactly the idlist the search endpoint reports for
\* the query.
C11_SearchReturnsIdlist == op = "search" => pmids = idlist

---------------------------------------------------------------------------
(* models.py: the classifier with the iteration order of the keyword       *)
(* tables made explicit.  The tables are iterated by any() and by the      *)
(* for loops of lines 51-59; an order is a sequence that lists a table.    *)

RECURSIVE SomeOrder(_)
SomeOrder(keywords) ==
    IF keywords = {} THEN <<>>
    ELSE LET k == CHOOSE k \in keywords : TRUE
         IN  <<k>> \o SomeOrder(keywords \ {k})

Rotate(seq, n) ==
    [i \in 1..Len(seq) |-> seq[((i + n - 1) % Len(seq)) + 1]]

\* Orders in which a table may be iterated: every keyword comes first in
\* one of them.
IterationOrders(keywords) ==
    LET order == SomeOrder(keywords)
    IN  {Rotate(order, n) : n \in 0..(Len(order) - 1)}

\* Mutant of EarliestPosIn: the offset of the keyword found first in the
\* iteration is taken, not the least.
RECURSIVE FirstFoundPosIn(_, _, _)
FirstFoundPosIn(affiliation_lower, order, pos_so_far) ==
    IF order = <<>> THEN pos_so_far
    ELSE IF Find(affiliation_lower, Head(order)) /= -1
         THEN Find(affiliation_lower, Head(order))
    ELSE FirstFoundPosIn(affiliation_lower, Tail(order), pos_so_far)

\* The loop of lines 51-54 (and 56-59) run over the keywords in the given
\* order, pos_so_far being academic_pos (company_pos) before the loop.
RECURSIVE EarliestPosIn(_, _, _)
EarliestPosIn(affiliation_lower, order, pos_so_far) ==
    IF order = <<>> THEN pos_so_far
    ELSE LET pos == Find(affiliation_lower, Head(order))
         IN  EarliestPosIn(affiliation_lower, Tail(order),
                           IF pos /= -1 THEN Min({pos_so_far, pos})
                           ELSE pos_so_far)

\* Author._check_non_academic_affiliation, the tables iterated in the
\* orders given.
CheckNonAcademicAffiliationIn(affiliation, academic_order, company_order) ==
    IF ~Truthy(affiliation) THEN FALSE
    ELSE LET affiliation_lower == Lower(affiliation)
             has_academic ==
                \E i \in 1..Len(academic_order) :
                   Contains(affiliation_lower, academic_order[i])
             has_company ==
                \E i \in 1..Len(company_order) :
                   CompanyKeywordMatches(company_order[i], affiliation_lower)
         IN  IF has_academic /\ has_company
             THEN EarliestPosIn(affiliation_lower, company_order, Inf)
                    < EarliestPosIn(affiliation_lower, academic_order, Inf)
             ELSE has_company

\* Author(name, affiliation), the tables iterated in the orders given.
NewAuthorIn(name, affiliation, academic_order, company_order) ==
    LET is_non_academic ==
           IF Truthy(affiliation)
           THEN CheckNonAcademicAffiliationIn(affiliation, academic_order,
                                              company_order)
           ELSE DefaultIsNonAcademic
    IN  [name |-> name, affiliation |-> affiliation, email |-> None,
         is_corresponding |-> PyFalse,
         is_non_academic |-> is_non_academic,
         company_name |->
            IF Truthy(affiliation) /\ is_non_academic
            THEN ExtractCompanyName(affiliation, is_non_academic)
            ELSE DefaultCompanyName]

\* The Authors constructed one after the other.
MaxConstructions == 2

\* Affiliations with several keywords of a table at different offsets.
RepeatedAffiliations ==
    { PfizerText, UniversityText, NovartisText, None, <<>>,
      <<"I","n","s","t","i","t","u","t","e"," ","o","f"," ","A","c","m","e"," ","I","n","c",","," ","U","n","i","v","e","r","s","i","t","y">>,
      <<"A","c","m","e"," ","I","n","c",","," ","U","n","i","v","e","r","s","i","t","y"," ","o","f"," ","P","h","a","r","m","a">>,
      <<"P","h","a","r","m","a"," ","S","c","h","o","o","l"," ","o","f"," ","A","c","m","e"," ","C","o","r","p",","," ","H","o","s","p","i","t","a","l">>,
      <<"S","c","h","o","o","l"," ","o","f"," ","P","h","a","r","m","a",","," ","I","n","s","t","i","t","u","t","e"," ","L","t","d">>,
      <<"R","e","s","e","a","r","c","h"," ","I","n","c">> }

InitRepeated ==
    /\ authors = <<>>
    /\ op = "none"
    /\ raised = FALSE
    /\ paper = NoPaper /\ view = NoView
    /\ AuthorIdle /\ ParserIdle /\ SearchIdle /\ PipelineIdle

\* Author("Jane Smith", affiliation) once more, whatever was constructed
\* before and in whatever order the tables are iterated this time.
ConstructAgain ==
    /\ Len(authors) < MaxConstructions
    /\ \E affiliation \in RepeatedAffiliations,
          academic_order \in IterationOrders(ACADEMIC_KEYWORDS),
          company_order \in IterationOrders(COMPANY_KEYWORDS) :
         authors' = Append(authors,
                           NewAuthorIn(<<"J","a","n","e"," ","S","m","i","t","h">>, affiliation,
                                       academic_order, company_order))
    /\ op' = "Author"
    /\ UNCHANGED <<aff_in, nonacad_in, company_in, author, paper, view,
                   api_response, papers, raised, date_in, date_out>>
    /\ UNCHANGED pipelineVars

NextRepeated == ConstructAgain

SpecRepeated == InitRepeated /\ [][NextRepeated]_vars

\* C12: classification is deterministic.  Two Authors constructed from the
\* same affiliation text have the same is_non_academic and company_name,
\* whatever was constructed before them and in whatever order the keyword
\* tables were iterated.
C12_SameAffiliationSameFields ==
    \A i, j \in 1..Len(authors) :
        authors[i].affiliation = authors[j].affiliation =>
           /\ authors[i].is_non_academic = authors[j].is_non_academic
           /\ authors[i].company_name = authors[j].company_name

\* Two Authors were constructed from a text with an academic keyword on
\* either side of a company keyword.
C12_Witness ==
    /\ Len(authors) = 2
    /\ authors[1].affiliation = <<"I","n","s","t","i","t","u","t","e"," ","o","f"," ","A","c","m","e"," ","I","n","c",","," ","U","n","i","v","e","r","s","i","t","y">>
    /\ authors[2].affiliation = authors[1].affiliation
    /\ ~authors[2].is_non_academic

---------------------------------------------------------------------------
(* fetcher.py: PubMedFetcher.save_results_to_csv.  What is written is the  *)
(* sequence of rows handed to the csv writer, the header row first, each   *)
(* row the sequence of its fields; nothing is written for no papers.       *)

headers ==
    << <<"P","u","b","m","e","d","I","D">>, <<"T","i","t","l","e">>, <<"P","u","b","l","i","c","a","t","i","o","n"," ","D","a","t","e">>, <<"N","o","n","-","a","c","a","d","e","m","i","c"," ","A","u","t","h","o","r","(","s",")">>,
       <<"C","o","m","p","a","n","y"," ","A","f","f","i","l","i","a","t","i","o","n","(","s",")">>, <<"C","o","r","r","e","s","p","o","n","d","i","n","g"," ","A","u","t","h","o","r"," ","E","m","a","i","l">> >>

\* The decimal digits of n, at least width of them.
RECURSIVE ZeroPadded(_, _)
ZeroPadded(n, width) ==
    IF n < 10 /\ width <= 1 THEN <<Digits[n + 1]>>
    ELSE ZeroPadded(n \div 10, width - 1) \o <<Digits[(n % 10) + 1]>>

\* date.isoformat()
IsoFormat(d) ==
    ZeroPadded(d[1], 4) \o <<"-">> \o ZeroPadded(d[2], 2) \o <<"-">>
        \o ZeroPadded(d[3], 2)

\* isinstance(x, str), x a value as a field holds it.
IsStr(x) ==
    x = <<>> \/ x[1] \notin {"None", "True", "False", "int", "list", "dict"}

\* Lines 95-98: "; ".join(...) raises TypeError for a non-academic author
\* whose name is no string, or whose company_name is neither None nor a
\* string.
CsvRowRaises(p) ==
    \E i \in 1..Len(NonAcademicAuthors(p)) :
        LET a == NonAcademicAuthors(p)[i]
        IN  \/ ~IsStr(a.name)
            \/ a.company_name /= None /\ ~IsStr(a.company_name)

\* Lines 95-108: the row of a paper, none when the joins raise.
CsvRow(p) ==
    IF CsvRowRaises(p) THEN <<>> ELSE
    LET non_academic == NonAcademicAuthors(p)
        non_academic_authors ==
            Join([i \in 1..Len(non_academic) |-> non_academic[i].name],
                 <<";", " ">>)
        company_affiliations == Join(CompanyAffiliations(p), <<";", " ">>)
    IN  << p.pubmed_id, p.title, IsoFormat(p.publication_date),
           non_academic_authors, company_affiliations,
           IF Truthy(CorrespondingAuthorEmail(p))
           THEN CorrespondingAuthorEmail(p) ELSE <<>> >>

\* PubMedFetcher.save_results_to_csv(paper_list) raises: the rows are built
\* before anything is written.
SaveResultsToCsvRaises(paper_list) ==
    \E i \in 1..Len(paper_list) : CsvRowRaises(paper_list[i])

\* PubMedFetcher.save_results_to_csv(paper_list): the rows written.
SaveResultsToCsv(paper_list) ==
    IF paper_list = <<>> \/ SaveResultsToCsvRaises(paper_list) THEN <<>>
    ELSE <<headers>> \o [i \in 1..Len(paper_list) |-> CsvRow(paper_list[i])]

\* fetcher.save_results_to_csv([paper]): the loop reads the properties of
\* the paper and assigns to none of its fields.
SavePaperToCsv ==
    /\ op = "Paper"
    /\ raised' = SaveResultsToCsvRaises(<<paper>>)
    /\ rows' = SaveResultsToCsv(<<paper>>)
    /\ paper' = AfterRead(paper)
    /\ UNCHANGED <<aff_in, nonacad_in, company_in, author, op, authors, view,
                   api_response, papers, date_in, date_out, query,
                   max_results, idlist, pmids, record_in, xml_authors>>

\* A Paper is assembled, and then read and saved in any order, any number
\* of times.
NextReadAndSave == NextPaper \/ SavePaperToCsv

SpecReadAndSave == InitPaper /\ [][NextReadAndSave]_vars

\* The derived fields of an Author are those __post_init__ computed.
DerivedAtConstruction(a) ==
    Truthy(a.affiliation) =>
       /\ a.is_non_academic = CheckNonAcademicAffiliation(a.affiliation)
       /\ a.is_non_academic =>
             a.company_name = ExtractCompanyName(a.affiliation, TRUE)

\* C13: the derived fields of an Author are computed at construction and
\* no later operation changes them: once the Paper is assembled, reading
\* its properties and saving it, in any order and any number of times,
\* leave the Paper, its authors list and every Author as they were, the
\* derived fields being those computed at construction.
C13_ReadsAndSaveChangeNoAuthor ==
    [][((op = "none" /\ op' = "Paper") =>
           /\ paper'.authors = authors
           /\ \A i \in 1..Len(authors) : DerivedAtConstruction(authors[i]))
       /\ ((op = "Paper") => (paper' = paper /\ authors' = authors))]_vars

\* A Paper with a non-academic author and an academic one has been read
\* and saved.
C13_Witness ==
    /\ op = "Paper"
    /\ view.property = "company_affiliations"
    /\ rows /= <<>>
    /\ Len(paper.authors) = MaxAuthors
    /\ \E i, j \in 1..Len(paper.authors) :
          /\ paper.authors[i].is_non_academic
          /\ paper.authors[i].company_name /= None
          /\ ~paper.authors[j].is_non_academic

---------------------------------------------------------------------------
(* Author construction from affiliations made of comma-separated segments. *)

MaxSegments == 3

\* Segments: a company with a trailing full stop, one with a leading full
\* stop, a place, a company in a noise segment, a blank one, and one that
\* holds an email address.
SegmentPool ==
    { <<"A","c","m","e"," ","I","n","c",".">>, <<".","N","e","t"," ","C","o","r","p">>, <<" ","B","a","s","e","l">>, <<"R","e","s","e","a","r","c","h"," ","I","n","c">>, <<" ">>,
      <<"x","@","a","c","m","e",".","c","o","m"," ","L","t","d">> }

RECURSIVE Segmented(_)
Segmented(n) ==
    IF n = 1 THEN SegmentPool
    ELSE {a \o <<",">> \o s : a \in Segmented(n - 1), s \in SegmentPool}

SegmentedAffiliations == UNION {Segmented(n) : n \in 1..MaxSegments}

InitSegments ==
    /\ aff_in \in SegmentedAffiliations
    /\ nonacad_in = DefaultIsNonAcademic
    /\ company_in = DefaultCompanyName
    /\ author = NoAuthor
    /\ op = "none"
    /\ raised = FALSE
    /\ PaperIdle /\ ParserIdle /\ SearchIdle /\ PipelineIdle

SpecSegments == InitSegments /\ [][NextAuthor]_vars

\* The comma-separated segments of the text, trimmed, that are not empty
\* and hold no noise word.
RemainingSegments(text) ==
    LET segs == Split(text, ",")
        remains(i) ==
            /\ StripWS(segs[i]) /= <<>>
            /\ \A k \in 1..Len(SkipWords) :
                  ~Contains(Lower(segs[i]), SkipWords[k])
        at == {i \in 1..Len(segs) : remains(i)}
        nth(n) == CHOOSE i \in at : Cardinality({j \in at : j <= i}) = n
    IN  [n \in 1..Cardinality(at) |-> StripWS(segs[nth(n)])]

\* The first remaining segment with a company keyword as a token, else the
\* first remaining one.
PreferredSegment(text) ==
    LET remaining == RemainingSegments(text)
        with_keyword == {n \in 1..Len(remaining) :
                            WholeTokenCompany(remaining[n])}
    IN  IF with_keyword /= {} THEN remaining[Min(with_keyword)]
        ELSE remaining[1]

\* An Author that the classifier found non-academic.
ClassifiedNonAcademic ==
    /\ op \in {"Author", "parse_author"} /\ ~raised
    /\ Truthy(author.affiliation)
    /\ author.is_non_academic

HoldsNoNoise(name) ==
    \A k \in 1..Len(SkipWords) : ~Contains(Lower(name), SkipWords[k])

\* C14 as stated: the company name of a non-academic Author is the first
\* remaining segment with a company keyword, else the first remaining
\* segment, with the punctuation and whitespace at its end stripped; it is
\* None exactly when no segment remains, and holds no "@" and no noise word.
C14_PreferredSegmentTrailingStripped ==
    ClassifiedNonAcademic =>
       /\ author.company_name = None
             <=> RemainingSegments(author.affiliation) = <<>>
       /\ author.company_name /= None =>
             /\ author.company_name
                  = RStrip(PreferredSegment(author.affiliation),
                           {".", ",", " "})
             /\ HoldsNoNoise(author.company_name)

\* C14 amended: the full stops, commas and spaces are stripped from both
\* ends of the segment.
C14_PreferredSegmentStripped ==
    ClassifiedNonAcademic =>
       /\ author.company_name = None
             <=> RemainingSegments(author.affiliation) = <<>>
       /\ author.company_name /= None =>
             /\ author.company_name
                  = Strip(PreferredSegment(author.affiliation),
                          {".", ",", " "})
             /\ HoldsNoNoise(author.company_name)

\* A name was taken from a later segment that holds a company keyword,
\* past a remaining segment without one, and its full stop was stripped.
C14_Witness ==
    /\ ClassifiedNonAcademic
    /\ Len(RemainingSegments(author.affiliation)) >= 2
    /\ ~WholeTokenCompany(RemainingSegments(author.affiliation)[1])
    /\ author.company_name = <<"A","c","m","e"," ","I","n","c">>

---------------------------------------------------------------------------
(* parse_author called on author records: an affiliation text, with or     *)
(* without an is_corresponding flag and an email field, as fetch_details   *)
(* builds them, and records with AffiliationInfo entries.                  *)

RecordAffiliations ==
    { PyStr(<<"A","c","m","e"," ","I","n","c","."," ","j","a","n","e","@","a","c","m","e",".","c","o","m">>),
      PyStr(<<"A","c","m","e"," ","I","n","c"," ","(","j","a","n","e","@","a","c","m","e",".","c","o","m",")","."," ","C","o","n","t","a","c","t",":"," ","j","a","n","e","@","a","c","m","e",".","c","o","m">>),
      PyStr(<<"A","c","m","e"," ","I","n","c","."," ","J","a","n","e","@","A","c","m","e",".","c","o","m">>),
      PyStr(<<"A","c","m","e"," ","I","n","c","."," ","j","a","n","e","@","a","c","m","e",".","c","o","m",";"," ","B","a","s","e","l">>),
      PyStr(<<"A","c","m","e"," ","I","n","c",","," ","j","a","n","e","@","a","c","m","e",".","c","o","m",","," ","B","a","s","e","l">>),
      PyStr(<<"A","c","m","e"," ","I","n","c","."," ","j","a","n","e","@","a","c","m","e">>),
      PyStr(<<"A","c","m","e"," ","I","n","c"," ","<","j","a","n","e","@","a","c","m","e",".","c","o","m",">">>),
      PyStr(<<"A","c","m","e"," ","I","n","c","."," ","a","@","b",".","c"," ","d","@","e",".","f">>),
      PyStr(<<"j","a","n","e","@","a","c","m","e",".","c","o","m">>),
      PyStr(<<" "," ","A","c","m","e"," ","I","n","c"," ">>),
      PyStr(<<"A","c","m","e"," ","I","n","c","."," ","C","o","r","r","e","s","p","o","n","d","i","n","g"," ","a","u","t","h","o","r">>),
      PyStr(<<"A","c","m","e"," ","I","n","c","."," ","C","o","r","r","e","s","p","o","n","d","e","n","t">>),
      PyStr(<<"T","o"," ","w","h","o","m"," ","C","O","R","R","E","S","P","O","N","D","E","N","C","E"," ","s","h","o","u","l","d"," ","b","e"," ","a","d","d","r","e","s","s","e","d",","," ","A","c","m","e"," ","I","n","c">>),
      PyStr(<<"U","n","i","v","e","r","s","i","t","y"," ","o","f"," ","S","c","i","e","n","c","e">>),
      PyStr(<<>>),
      PyNone }

RecordFlags == {Absent, PyBool(TRUE), PyBool(FALSE)}

RecordEmails == {Absent, PyNone, PyStr(<<"j","a","n","e","@","a","c","m","e",".","c","o","m">>)}

\* An author with two AffiliationInfo entries, the first ending in an
\* email address.
TwoAffiliationsAuthor ==
    [isdict |-> TRUE, name |-> PyStr(<<"J","a","n","e"," ","S","m","i","t","h">>),
     AffiliationInfo |->
        PyList(<< [isdict |-> TRUE,
                   Affiliation |-> PyStr(<<"A","c","m","e"," ","I","n","c","."," ","j","a","n","e","@","a","c","m","e",".","c","o","m">>)],
                  [isdict |-> TRUE, Affiliation |-> PyStr(<<"B","a","s","e","l">>)] >>),
     affiliation |-> Absent, email |-> Absent, is_corresponding |-> Absent]

AuthorRecords ==
    {[isdict |-> TRUE, name |-> PyStr(<<"J","a","n","e"," ","S","m","i","t","h">>),
      AffiliationInfo |-> Absent, affiliation |-> a, email |-> e,
      is_corresponding |-> f] :
        a \in RecordAffiliations, e \in RecordEmails, f \in RecordFlags}
      \cup {TwoAffiliationsAuthor, AffiliationInfoAuthor, NumberInListAuthor,
            NoDictAuthor}

InitRecord ==
    /\ record_in \in AuthorRecords
    /\ xml_authors = <<>> /\ rows = <<>>
    /\ author = NoAuthor
    /\ aff_in = None
    /\ nonacad_in = DefaultIsNonAcademic /\ company_in = DefaultCompanyName
    /\ op = "none"
    /\ raised = FALSE
    /\ PaperIdle /\ ParserIdle /\ SearchIdle

\* PubMedParser.parse_author(record_in)
ParseRecordCall ==
    /\ op = "none"
    /\ raised' = ParseAuthorRaises(record_in)
    /\ author' = IF raised' THEN NoAuthor ELSE ParseAuthor(record_in)
    /\ op' = "parse_author"
    /\ UNCHANGED <<aff_in, nonacad_in, company_in, authors, paper, view,
                   api_response, papers, date_in, date_out, query,
                   max_results, idlist, pmids, record_in, xml_authors, rows>>

NextRecord == ParseRecordCall

SpecRecord == InitRecord /\ [][NextRecord]_vars

---------------------------------------------------------------------------
(* The claims about parse_author on records (SpecRecord).                  *)

ParsedRecord == op = "parse_author" /\ ~raised

\* The punctuation that surrounds a token.
SurroundingPunctuation == EmailStripChars \cup {";", ":"}

\* The token, with the punctuation around it stripped, holds "@" and a
\* "." after it.
QualifiesAsEmail(token) ==
    LET stripped == Strip(token, SurroundingPunctuation)
    IN  \E i, j \in 1..Len(stripped) :
          i < j /\ stripped[i] = "@" /\ stripped[j] = "."

\* The tokens of the text that qualify, in order.
QualifyingTokens(text) ==
    IF ~Truthy(text) THEN <<>>
    ELSE SelectSeq(SplitWS(text), QualifiesAsEmail)

\* C15: the email of the Author is the first token of the affiliation that
\* qualifies, its surrounding punctuation stripped (in lower case); the
\* affiliation stored and the company name do not contain it; and when no
\* token qualifies the email is None and the affiliation is unchanged.
C15_FirstEmailTokenTakenAndRemoved ==
    ParsedRecord =>
       LET text == RecordAffiliation(record_in)
           qualifying == QualifyingTokens(text)
       IN  IF qualifying = <<>>
           THEN author.email = None /\ author.affiliation = text
           ELSE /\ author.email
                     = Lower(Strip(qualifying[1], SurroundingPunctuation))
                /\ ~Contains(author.affiliation, author.email)
                /\ author.company_name /= None =>
                      ~Contains(author.company_name, author.email)

\* C16: is_corresponding is true if an email was found, or the affiliation
\* holds "correspond" in any case, or the record carries a true flag, and
\* is false otherwise.
C16_CorrespondingIffEmailTermOrFlag ==
    ParsedRecord =>
       LET text == RecordAffiliation(record_in)
           expected ==
              \/ author.email /= None
              \/ Truthy(text) /\ Contains(Lower(text), <<"c","o","r","r","e","s","p","o","n","d">>)
              \/ record_in.is_corresponding = PyBool(TRUE)
       IN  author.is_corresponding = IF expected THEN PyTrue ELSE PyFalse

---------------------------------------------------------------------------
(* api.py: PubMedAPI.fetch_details, for a response that holds one article  *)
(* with a PMID, a title, a PubDate of a Year and a Month, and an abstract.  *)
(* An author of the article is [last_name, fore_name, affiliations]: the   *)
(* texts of its LastName and ForeName elements (None for no element) and   *)
(* of the Affiliation elements of its AffiliationInfo elements.            *)

\* Lines 178-184: the texts kept, stripped.
FetchedAffiliations(xml_author) ==
    LET kept == SelectSeq(xml_author.affiliations, Truthy)
    IN  [i \in 1..Len(kept) |-> StripWS(kept[i])]

\* Lines 188-199: the part of the first affiliation with an email address
\* that is taken as the email, None when there is none.
FetchedEmailPart(affiliations) ==
    LET has_email(aff) ==
            \E k \in 1..Len(SplitWS(aff)) : IsEmailPart(SplitWS(aff)[k])
        at == {i \in 1..Len(affiliations) : has_email(affiliations[i])}
    IN  IF at = {} THEN None
        ELSE LET parts == SplitWS(affiliations[Min(at)])
             IN  parts[Min({k \in 1..Len(parts) : IsEmailPart(parts[k])})]

\* Lines 165-210: the author_data of an author with a LastName.
FetchedAuthor(xml_author) ==
    LET found == FetchedAffiliations(xml_author)
        part == FetchedEmailPart(found)
        email == IF part = None THEN None ELSE EmailCandidate(part)
        affiliations ==
            IF part = None THEN found
            ELSE [i \in 1..Len(found) |->
                     StripWS(Replace(found[i], part, <<>>))]
        is_corresponding ==
            \/ Truthy(email)
            \/ \E i \in 1..Len(affiliations) :
                  Contains(Lower(affiliations[i]), <<"c","o","r","r","e","s","p","o","n","d">>)
    IN  [isdict |-> TRUE,
         name |-> IF xml_author.fore_name /= None
                  THEN PyStr(xml_author.fore_name \o <<" ">>
                                \o xml_author.last_name)
                  ELSE PyStr(xml_author.last_name),
         AffiliationInfo |-> Absent,
         affiliation |-> IF affiliations /= <<>>
                         THEN PyStr(Join(affiliations, <<";", " ">>))
                         ELSE PyNone,
         email |-> IF email = None THEN PyNone ELSE PyStr(email),
         is_corresponding |-> PyBool(is_corresponding)]

\* Lines 161-210: authors, the authors without a LastName left out.
FetchedAuthors(article_authors) ==
    LET named(x) == x.last_name /= None
        kept == SelectSeq(article_authors, named)
    IN  [i \in 1..Len(kept) |-> FetchedAuthor(kept[i])]

FetchedPmid == <<"4","0","0","5","3","3","8","9">>

\* Lines 147-225: the paper_data of the article.
FetchedPaper(article_authors) ==
    [isdict |-> TRUE, uid |-> PyStr(FetchedPmid),
     title |-> PyStr(<<"I","m","m","u","n","o","t","h","e","r","a","p","y">>), pubdate |-> PyStr(<<"2","0","2","3","-","J","u","n","-","1">>),
     authors |-> PyList(FetchedAuthors(article_authors)),
     abstract |-> PyStr(<<"A","b","s","t","r","a","c","t",".">>)]

EmptyResult == [given |-> TRUE, has_result |-> TRUE, result |-> PyDict(<<>>)]

\* PubMedAPI.fetch_details(id_list): {"result": {}} for no ids and for a
\* request that fails, else the article under its PMID.
FetchDetails(id_list, request_ok, article_authors) ==
    IF id_list = <<>> \/ ~request_ok THEN EmptyResult
    ELSE [given |-> TRUE, has_result |-> TRUE,
          result |-> PyDict(<< [key |-> FetchedPmid,
                                data |-> FetchedPaper(article_authors)] >>)]

---------------------------------------------------------------------------
(* The pipeline of fetch_and_save: search, process_papers (fetch_details   *)
(* and parse_search_results, or neither for no ids), save_results_to_csv.  *)

MaxFetched == 2

XmlAuthor(last_name, fore_name, affiliations) ==
    [last_name |-> last_name, fore_name |-> fore_name,
     affiliations |-> affiliations]

XmlAuthorPool ==
    { XmlAuthor(<<"S","m","i","t","h">>, <<"J","a","n","e">>, <<<<"A","c","m","e"," ","I","n","c",".",","," ","B","a","s","e","l","."," ","j","a","n","e","@","a","c","m","e",".","c","o","m">>>>),
      XmlAuthor(<<"D","o","e">>, <<"J","o","h","n">>,
                <<<<"U","n","i","v","e","r","s","i","t","y"," ","o","f"," ","S","c","i","e","n","c","e",","," ","D","e","p","a","r","t","m","e","n","t"," ","o","f"," ","B","i","o","l","o","g","y">>>>),
      XmlAuthor(<<"W","i","l","s","o","n">>, None,
                <<<<"P","f","i","z","e","r"," ","I","n","c",".",","," ","N","e","w"," ","Y","o","r","k","."," ","C","o","r","r","e","s","p","o","n","d","i","n","g"," ","a","u","t","h","o","r">>>>),
      XmlAuthor(None, None, <<<<"A","c","m","e"," ","I","n","c",".">>>>),
      XmlAuthor(<<"L","e","e">>, <<"A","n","n">>, <<>>),
      XmlAuthor(<<"R","o","e">>, <<"C","a","r","l">>,
                <<<<"A","c","m","e"," ","I","n","c","."," ","(","c","a","r","l","@","a","c","m","e",".","c","o","m",")">>,
                  <<"U","n","i","v","e","r","s","i","t","y"," ","o","f"," ","S","c","i","e","n","c","e"," ","c","a","r","l","@","a","c","m","e",".","c","o","m">>>>),
      XmlAuthor(<<"M","o","e">>, <<"E","v","e">>,
                <<<<"N","o","v","a","r","t","i","s"," ","P","h","a","r","m","a",","," ","B","a","s","e","l","."," ","E","V","E","@","N","o","v","a","r","t","i","s",".","c","o","m",","," ","e","v","e","2","@","n","o","v","a","r","t","i","s",".","c","o","m">>>>) }

RECURSIVE XmlAuthorLists(_)
XmlAuthorLists(n) ==
    IF n = 0 THEN {<<>>}
    ELSE {Append(l, x) : l \in XmlAuthorLists(n - 1), x \in XmlAuthorPool}

InitPipeline ==
    /\ xml_authors \in UNION {XmlAuthorLists(n) : n \in 0..MaxFetched}
    /\ query \in Queries
    /\ max_results \in {0, 1}
    /\ idlist = <<FetchedPmid>>
    /\ pmids = <<>>
    /\ record_in = Absent
    /\ rows = <<>>
    /\ api_response = NoResponse /\ papers = <<>>
    /\ date_in = Absent /\ date_out = NoDate
    /\ op = "none"
    /\ raised = FALSE
    /\ AuthorIdle /\ PaperIdle

\* process_papers, lines 62-64: no ids, nothing is fetched or parsed.
ProcessNoPapers ==
    /\ op = "search"
    /\ pmids = <<>>
    /\ papers' = <<>>
    /\ op' = "process_papers"
    /\ UNCHANGED <<aff_in, nonacad_in, company_in, author, authors, paper,
                   view, api_response, raised, date_in, date_out>>
    /\ UNCHANGED pipelineVars

\* process_papers, line 67: paper_details = self.api.fetch_details(pmids),
\* the request succeeding or not.
FetchDetailsCall ==
    /\ op = "search"
    /\ pmids /= <<>>
    /\ \E request_ok \in BOOLEAN :
          api_response' = FetchDetails(pmids, request_ok, xml_authors)
    /\ op' = "fetch_details"
    /\ UNCHANGED <<aff_in, nonacad_in, company_in, author, authors, paper,
                   view, papers, raised, date_in, date_out, query,
                   max_results, idlist, pmids, record_in, xml_authors, rows>>

\* self.parser.parse_search_results(paper_details)
ParseFetched ==
    /\ op = "fetch_details"
    /\ raised' = ParseSearchResults(api_response).raised
    /\ papers' = ParseSearchResults(api_response).papers
    /\ op' = "parse_search_results"
    /\ UNCHANGED <<aff_in, nonacad_in, company_in, author, authors, paper,
                   view, api_response, date_in, date_out>>
    /\ UNCHANGED pipelineVars

\* self.save_results_to_csv(papers, output_file)
SaveFetched ==
    /\ op \in {"process_papers", "parse_search_results"}
    /\ ~raised
    /\ raised' = SaveResultsToCsvRaises(papers)
    /\ rows' = SaveResultsToCsv(papers)
    /\ op' = "save_results_to_csv"
    /\ UNCHANGED <<aff_in, nonacad_in, company_in, author, authors, paper,
                   view, api_response, papers, date_in, date_out,
                   query, max_results, idlist, pmids, record_in, xml_authors>>

NextPipeline ==
    \/ SearchCall
    \/ ProcessNoPapers
    \/ FetchDetailsCall
    \/ ParseFetched
    \/ SaveFetched

SpecPipeline == InitPipeline /\ [][NextPipeline]_vars

\* The author records of the article fetched.
FetchedRecords ==
    IF ~api_response.given THEN <<>>
    ELSE IF api_response.result.val = <<>> THEN <<>>
    ELSE api_response.result.val[1].data.authors.val

\* C17: an email that fetch_details stored in the email field of an author
\* record becomes the email of that Author, and the paper is exported with
\* the first such address in the Corresponding Author Email column.
C17_StructuredEmailExported ==
    op = "save_results_to_csv" =>
       LET with_email ==
              {i \in 1..Len(FetchedRecords) :
                  FetchedRecords[i].email.type = "str"}
       IN  with_email /= {} =>
              /\ \A i \in with_email :
                    papers[1].authors[i].email = FetchedRecords[i].email.val
              /\ rows[2][6] = FetchedRecords[Min(with_email)].email.val

====
